---- MODULE Spec2Model ----
(***************************************************************************)
(* Phase 3 of V2S: conversion of detected GUI actions into timestamped     *)
(* sendevent command lines (Action2EventConverter) as driven by            *)
(* Phase3V2S.execute.                                                      *)
(*                                                                         *)
(* Time.  The code keeps timestamps as Python floats.  Every amount it     *)
(* ever adds is a rational with a fixed denominator (0.001,                *)
(* 1/(2*FRAMES_CONV_FACTOR), that divided by 1.5, n/DELAY_OFFSET), so the  *)
(* model counts time in integer ticks of 1/TicksPerSecond seconds, in      *)
(* exact arithmetic.                                                       *)
(*                                                                         *)
(* Coordinates.  A coordinate is a rational num/den (the centroid of n     *)
(* taps is sum/n); a text line is a record of its fields.                  *)
(***************************************************************************)
EXTENDS Integers, Sequences, FiniteSets, TLC

VARIABLES
    data,            \* detected_actions.json: the list of action dicts
    device_config,   \* device_config.json[device_model]
    actions,         \* Action2EventConverter.actions
    config,          \* Action2EventConverter.config
    input_dev,       \* max_x, max_y, display_width, display_height, input_device
    event_list,      \* Action2EventConverter.event_list
    raw_commands,    \* Action2EventConverter.raw_commands
    p3_events,       \* Phase3V2S.events
    p3_raw_commands, \* Phase3V2S.raw_commands
    pc,              \* position of the caller in Phase3V2S.execute
    idx,             \* position of the for loop over self.actions
    send_events,     \* local of convert_GUIAction_to_send_event
    curr_frame,      \* local: last frame of the previous action
    curr_time_stamp, \* local: the running clock, in ticks
    steps,           \* sum of the wait steps added to curr_time_stamp so far
    err,             \* the exception that ended the conversion, or "none"
    other,           \* a second Action2EventConverter: the record of its fields
    other_data,      \* the action dicts the second converter is given
    files,           \* the files Phase3V2S.execute has written
    record_thread,   \* the RecordThread of Phase3V2S.execute
    trace,           \* the replay steps Phase3V2S.execute has taken, in order
    p3_config,       \* Phase3V2S.config: the keys arch and emulator
    adb_devices,     \* the lines `adb devices` prints, the title first
    device_name      \* local of Phase3V2S.execute: the device of the replay

vars == <<data, device_config, actions, config, input_dev, event_list,
          raw_commands, p3_events, p3_raw_commands, pc, idx, send_events,
          curr_frame, curr_time_stamp, steps, err,
          other, other_data, files, record_thread, trace,
          p3_config, adb_devices, device_name>>

\* the configuration of the replay, the devices connected and the one chosen
replay_device == <<p3_config, adb_devices, device_name>>

\* what the first converter's methods never touch
aux == <<other, other_data, files, record_thread, trace, replay_device>>

\* the first converter and the Phase3V2S that drives it
converter == <<actions, config, input_dev, event_list, raw_commands, p3_events,
               p3_raw_commands, pc, idx, send_events, curr_frame,
               curr_time_stamp, steps, err>>

-----------------------------------------------------------------------------
(* Bounds of the model *)

MaxGestures == 2

\* the longest tap list of the gestures whose coordinates are scaled
MaxScaleTaps == 2

\* the most devices connected when the replay device is chosen
MaxDevices == 2

-----------------------------------------------------------------------------
(* v2s.util.constants *)

FRAMES_CONV_FACTOR == 30

DELAY_OFFSET == 30

DEF_PRESSURE == "DEF_PRESSURE"

-----------------------------------------------------------------------------
(* Exact representation of the float timestamps *)

RECURSIVE GCD(_, _)
GCD(a, b) == IF b = 0 THEN a ELSE GCD(b, a % b)

LCM(a, b) == (a * b) \div GCD(a, b)

\* one second, in ticks: every step the code adds is a whole number of ticks
TicksPerSecond == LCM(LCM(1000, 6 * FRAMES_CONV_FACTOR), DELAY_OFFSET)

\* wait_per_command = (1 / FRAMES_CONV_FACTOR) / 2
WaitPerCommand == TicksPerSecond \div (2 * FRAMES_CONV_FACTOR)

\* a step of wait_per_command / 2
LongClickWaitHalf == WaitPerCommand \div 2

\* wait_per_command / 1.5
LongClickWait == (2 * WaitPerCommand) \div 3

\* wait_per_command = 0.001 of add_fake_tap
FakeTapWait == TicksPerSecond \div 1000

\* delay = paused_frames / DELAY_OFFSET
Delay(paused_frames) == (paused_frames * TicksPerSecond) \div DELAY_OFFSET

\* a clock that goes on from the last stamp of the fake tap
ClockStartAtBootstrap == 4 * FakeTapWait

\* curr_time_stamp = 1.0
ClockStart == TicksPerSecond

PyMax(a, b) == IF a >= b THEN a ELSE b

-----------------------------------------------------------------------------
(* Python's int(), hex() and the slicing the code applies to them *)

\* int(num / den), den > 0: truncation toward zero
PyInt(num, den) == IF num >= 0 THEN num \div den ELSE -((-num) \div den)

HexDigit(d) == <<"0", "1", "2", "3", "4", "5", "6", "7", "8", "9",
                 "a", "b", "c", "d", "e", "f">>[d + 1]

RECURSIVE HexDigits(_)
HexDigits(n) == IF n < 16 THEN <<HexDigit(n)>>
                ELSE Append(HexDigits(n \div 16), HexDigit(n % 16))

\* hex(n), as the sequence of its characters
PyHex(n) == IF n < 0 THEN <<"-", "0", "x">> \o HexDigits(-n)
            ELSE <<"0", "x">> \o HexDigits(n)

\* s[k:]
PySliceFrom(s, k) == IF k >= Len(s) THEN <<>> ELSE SubSeq(s, k + 1, Len(s))

RECURSIVE Join(_)
Join(s) == IF s = <<>> THEN "" ELSE Head(s) \o Join(Tail(s))

\* the field with hex(int(x))[3:], the slice add_fake_tap takes
HexFieldSliceThree(num, den) ==
    LET hex_x == PySliceFrom(PyHex(PyInt(num, den)), 3)
        zeros == <<"0", "0", "0", "0", "0", "0", "0", "0">>
    IN  Join(PySliceFrom(zeros \o hex_x, Len(hex_x)))

\* hex(int(x))[2:] then ("00000000" + hex_x)[len(hex_x):]
HexField(num, den) ==
    LET hex_x == PySliceFrom(PyHex(PyInt(num, den)), 2)
        zeros == <<"0", "0", "0", "0", "0", "0", "0", "0">>
    IN  Join(PySliceFrom(zeros \o hex_x, Len(hex_x)))

-----------------------------------------------------------------------------
(* Inputs: the device profile and the detected actions *)

\* one entry of device_config.json
Profile == [max_x |-> 4095, max_y |-> 4095, width |-> 1080, height |-> 1920,
            device |-> "/dev/input/event1",
            EV_ABS |-> "0003", EV_KEY |-> "0001", EV_SYN |-> "0000",
            X |-> "0035", Y |-> "0036", TRACK_ID |-> "0039",
            MAJOR |-> "0030", PRESS |-> "003a"]

Profiles == {Profile}

\* the "taps" entries of detected_actions.json (x, y; the two confidences are
\* copied into ScreenTap and never read by the conversion)
OneTap == <<[x |-> 100, y |-> 200]>>

ThreeTaps == <<[x |-> 100, y |-> 200], [x |-> 540, y |-> 960],
               [x |-> 1079, y |-> 1919]>>

\* the "frames" entries
FrameLists == { <<5>>, <<10, 11, 12>>, <<3, 4, 5, 6>> }

\* the "act_type" entries the pipeline knows
ActTypeNames == {"CLICK", "LONG_CLICK", "SWIPE"}

\* well-formed action dicts
ValidDicts == [frames : FrameLists, taps : {OneTap, ThreeTaps},
               act_type : ActTypeNames]

\* action dicts the data model excludes: a kind the pipeline does not know,
\* no frames, no taps
MalformedDicts ==
    [frames : {<<5>>, <<10, 11, 12>>}, taps : {OneTap}, act_type : {"DOUBLE_TAP"}]
    \cup [frames : {<<>>}, taps : {OneTap}, act_type : {"CLICK", "SWIPE"}]
    \cup [frames : {<<5>>}, taps : {<<>>}, act_type : ActTypeNames]

ActionDicts == ValidDicts \cup MalformedDicts

\* taps on and off the display, for the scaling of coordinates
ScalePoints == { [x |-> -300, y |-> 50], [x |-> -1, y |-> -1],
                 [x |-> 0, y |-> 0], [x |-> 1, y |-> 1],
                 [x |-> 100, y |-> 200], [x |-> 1079, y |-> 1919] }

ScaleTapLists == UNION { [1..n -> ScalePoints] : n \in 1..MaxScaleTaps }

ScaleDicts == [frames : {<<5>>, <<10, 11, 12>>}, taps : ScaleTapLists,
               act_type : ActTypeNames]

ScaleDataFiles == { <<d>> : d \in ScaleDicts }

\* an entry of device_config.json whose touch panel is coarser than its display
CoarseProfile == [Profile EXCEPT !.max_x = 1023, !.max_y = 1023]

ScaleProfiles == {Profile, CoarseProfile}

\* the keys of the profile that execute() reads
RequiredKeys == {"max_x", "max_y", "width", "height", "device", "EV_ABS",
                 "EV_KEY", "EV_SYN", "X", "Y", "TRACK_ID", "MAJOR", "PRESS"}

\* self.config[key] raises KeyError for these
MissingKeys(cfg) == RequiredKeys \ DOMAIN cfg

\* entries of device_config.json that lack one key
IncompleteProfiles ==
    { [k \in (DOMAIN Profile) \ {key} |-> Profile[k]] : key \in RequiredKeys }

ProfileDataFiles == {<<>>} \cup { <<d>> : d \in ValidDicts }

\* action dicts for two converters at work at once
TwoDicts == { [frames |-> <<5>>, taps |-> OneTap, act_type |-> "CLICK"],
              [frames |-> <<10, 11, 12>>, taps |-> ThreeTaps, act_type |-> "SWIPE"],
              [frames |-> <<5>>, taps |-> <<>>, act_type |-> "SWIPE"] }

TwoDataFiles == UNION { [1..n -> TwoDicts] : n \in 0..MaxGestures }

DataFiles == UNION { [1..n -> ActionDicts] : n \in 0..MaxGestures }

-----------------------------------------------------------------------------
(* v2s.util.event, v2s.util.spatial: the records the conversion builds *)

None == "None"

ActionTypes == {"ActionType.CLICK", "ActionType.LONG_CLICK", "ActionType.SWIPE"}

\* GUIAction(taps, frames, act_type)
GUIAction(tap_list, frames, tp) == [taps |-> tap_list, frames |-> frames, type |-> tp]

\* Coords(x, y); x and y are num/den
Coords(xnum, ynum, den) == [x |-> xnum, y |-> ynum, den |-> den]

RECURSIVE SumX(_)
SumX(taps) == IF taps = <<>> THEN 0 ELSE Head(taps).x + SumX(Tail(taps))

RECURSIVE SumY(_)
SumY(taps) == IF taps = <<>> THEN 0 ELSE Head(taps).y + SumY(Tail(taps))

\* GUIAction.get_centroid(): the mean of the taps; no centroid of no taps
HasCentroid(action) == action.taps # <<>>

GetCentroid(action) ==
    Coords(SumX(action.taps), SumY(action.taps), Len(action.taps))

\* Event(label, start, end, pause_dur, last_event) and set_raw_commands
Event(label, start, end, pause_dur, last_event, cmds) ==
    [label |-> label, start |-> start, end |-> end, pause_dur |-> pause_dur,
     last_event |-> last_event, raw_commands |-> cmds]

-----------------------------------------------------------------------------
(* Phase3V2S.read_actions_from_json *)

ActType(tp) == CASE tp = "CLICK"      -> "ActionType.CLICK"
                 [] tp = "LONG_CLICK" -> "ActionType.LONG_CLICK"
                 [] tp = "SWIPE"      -> "ActionType.SWIPE"
                 [] OTHER             -> tp

ReadActionsFromJson(d) ==
    [i \in 1..Len(d) |-> GUIAction(d[i].taps, d[i].frames, ActType(d[i].act_type))]

-----------------------------------------------------------------------------
(* The command lines.  "[    <ts>] <device>: <type> <code> <value>" is kept  *)
(* as the record of its fields.                                            *)

Line(t, dev, type, code, val) ==
    [ts |-> t, dev |-> dev.input_device, type |-> type, code |-> code, val |-> val]

\* ABS_EV + ABS_MT_TRACKING_ID + "00000000"
TrackStart(t, dev, cfg) == Line(t, dev, cfg.EV_ABS, cfg.TRACK_ID, "00000000")

\* a closing tracking-id line that carries 00000000
TrackReleaseAsStart(t, dev, cfg) == Line(t, dev, cfg.EV_ABS, cfg.TRACK_ID, "00000000")

\* ABS_EV + ABS_MT_TRACKING_ID + "ffffffff"
TrackRelease(t, dev, cfg) == Line(t, dev, cfg.EV_ABS, cfg.TRACK_ID, "ffffffff")

\* KEY_EV + "014a 00000001", KEY_EV + "0145 00000001"
KeyDown(t, dev, cfg, key) == Line(t, dev, cfg.EV_KEY, key, "00000001")

\* SYNTH_EV + SYNTH_REPORT + "00000000": both read config["EV_SYN"]
SyncReport(t, dev, cfg) == Line(t, dev, cfg.EV_SYN, cfg.EV_SYN, "00000000")

\* send_x_cmd + value, send_y_cmd + value
SendX(t, dev, cfg, val) == Line(t, dev, cfg.EV_ABS, cfg.X, val)

SendY(t, dev, cfg, val) == Line(t, dev, cfg.EV_ABS, cfg.Y, val)

TouchMajor(t, dev, cfg) == Line(t, dev, cfg.EV_ABS, cfg.MAJOR, "00000005")

Pressure(t, dev, cfg) == Line(t, dev, cfg.EV_ABS, cfg.PRESS, DEF_PRESSURE)

\* a scaling that divides with //, to a whole number
ScaleXFloorDiv(dev, tap) ==
    [num |-> (tap.x * (dev.max_x + 1)) \div (tap.den * dev.display_width),
     den |-> 1]

\* x = (tap.x * (max_x + 1)) / display_width, as the fraction num/den
ScaleX(dev, tap) ==
    [num |-> tap.x * (dev.max_x + 1), den |-> tap.den * dev.display_width]

\* y = (tap.y * (max_y + 1)) / display_height
ScaleY(dev, tap) ==
    [num |-> tap.y * (dev.max_y + 1), den |-> tap.den * dev.display_height]

\* the hex field of int(x)
ScaledX(dev, tap) == HexField(ScaleX(dev, tap).num, ScaleX(dev, tap).den)

ScaledY(dev, tap) == HexField(ScaleY(dev, tap).num, ScaleY(dev, tap).den)

-----------------------------------------------------------------------------
(* Action2EventConverter.add_fake_tap *)

\* a fake tap that emits the hex_x, hex_y it computes from (-1, -1)
AddFakeTapScaled(dev, cfg) ==
    LET w  == FakeTapWait
        t0 == 0
        t1 == t0 + w
        t2 == t1 + w
        t3 == t2 + w
        t4 == t3 + w
    IN  Event("CLICK", Coords(0, 0, 1), Coords(0, 0, 1), 0, w,
              << TrackStart(t0, dev, cfg),
                 KeyDown(t0, dev, cfg, "014a"),
                 KeyDown(t0, dev, cfg, "0145"),
                 SendX(t1, dev, cfg, HexFieldSliceThree(-(dev.max_x + 1), dev.display_width)),
                 SendY(t1, dev, cfg, HexFieldSliceThree(-(dev.max_y + 1), dev.display_height)),
                 TouchMajor(t2, dev, cfg),
                 Pressure(t2, dev, cfg),
                 SyncReport(t3, dev, cfg),
                 TrackRelease(t4, dev, cfg),
                 SyncReport(t4, dev, cfg) >>)

AddFakeTap(dev, cfg) ==
    LET w  == FakeTapWait
        t0 == 0
        t1 == t0 + w
        t2 == t1 + w
        t3 == t2 + w
        t4 == t3 + w
    IN  Event("CLICK", Coords(0, 0, 1), Coords(0, 0, 1), 0, w,
              << TrackStart(t0, dev, cfg),
                 KeyDown(t0, dev, cfg, "014a"),
                 KeyDown(t0, dev, cfg, "0145"),
                 SendX(t1, dev, cfg, "ffffffff"),
                 SendY(t1, dev, cfg, "ffffffff"),
                 TouchMajor(t2, dev, cfg),
                 Pressure(t2, dev, cfg),
                 SyncReport(t3, dev, cfg),
                 TrackRelease(t4, dev, cfg),
                 SyncReport(t4, dev, cfg) >>)

-----------------------------------------------------------------------------
(* The three branches of convert_GUIAction_to_send_event.  Each gives the  *)
(* event it appends and the value of curr_time_stamp it leaves.            *)

\* a Click that leaves out the second key-down line
ClickBranchOneKey(t0, dev, cfg, action) ==
    LET w        == WaitPerCommand
        curr_tap == GetCentroid(action)
        t1 == t0 + w
        t2 == t1 + w
        t3 == t2 + w
        t4 == t3 + w
    IN  [event |-> Event("CLICK", curr_tap, curr_tap, 0, w,
                     << TrackStart(t0, dev, cfg),
                        KeyDown(t0, dev, cfg, "014a"),
                        SendX(t1, dev, cfg, ScaledX(dev, curr_tap)),
                        SendY(t1, dev, cfg, ScaledY(dev, curr_tap)),
                        TouchMajor(t2, dev, cfg),
                        Pressure(t2, dev, cfg),
                        SyncReport(t3, dev, cfg),
                        TrackRelease(t4, dev, cfg),
                        SyncReport(t4, dev, cfg) >>),
         clock |-> t4 + w]

\* a Click whose clock is not advanced between the sync and the release
ClickBranchSyncWithRelease(t0, dev, cfg, action) ==
    LET w        == WaitPerCommand
        curr_tap == GetCentroid(action)
        t1 == t0 + w
        t2 == t1 + w
        t3 == t2 + w
    IN  [event |-> Event("CLICK", curr_tap, curr_tap, 0, w,
                     << TrackStart(t0, dev, cfg),
                        KeyDown(t0, dev, cfg, "014a"),
                        KeyDown(t0, dev, cfg, "0145"),
                        SendX(t1, dev, cfg, ScaledX(dev, curr_tap)),
                        SendY(t1, dev, cfg, ScaledY(dev, curr_tap)),
                        TouchMajor(t2, dev, cfg),
                        Pressure(t2, dev, cfg),
                        SyncReport(t3, dev, cfg),
                        TrackRelease(t3, dev, cfg),
                        SyncReport(t3, dev, cfg) >>),
         clock |-> t3 + w]

ClickBranch(t0, dev, cfg, action) ==
    LET w        == WaitPerCommand
        curr_tap == GetCentroid(action)
        t1 == t0 + w
        t2 == t1 + w
        t3 == t2 + w
        t4 == t3 + w
    IN  [event |-> Event("CLICK", curr_tap, curr_tap, 0, w,
                     << TrackStart(t0, dev, cfg),
                        KeyDown(t0, dev, cfg, "014a"),
                        KeyDown(t0, dev, cfg, "0145"),
                        SendX(t1, dev, cfg, ScaledX(dev, curr_tap)),
                        SendY(t1, dev, cfg, ScaledY(dev, curr_tap)),
                        TouchMajor(t2, dev, cfg),
                        Pressure(t2, dev, cfg),
                        SyncReport(t3, dev, cfg),
                        TrackRelease(t4, dev, cfg),
                        SyncReport(t4, dev, cfg) >>),
         clock |-> t4 + w]

\* a hold that refreshes the coordinates without the per-frame sync
RECURSIVE LongClickFramesNoSync(_, _, _, _, _, _)
LongClickFramesNoSync(n, t, dev, cfg, hex_x, hex_y) ==
    IF n = 0 THEN [cmds |-> <<>>, clock |-> t]
    ELSE LET rest == LongClickFramesNoSync(n - 1, t + LongClickWait + LongClickWait,
                                           dev, cfg, hex_x, hex_y)
         IN  [cmds |-> << SendX(t, dev, cfg, hex_x),
                          SendY(t, dev, cfg, hex_y) >> \o rest.cmds,
              clock |-> rest.clock]

\* for i in range(len(curr_frames)): the x, y pair, then the sync
RECURSIVE LongClickFrames(_, _, _, _, _, _)
LongClickFrames(n, t, dev, cfg, hex_x, hex_y) ==
    IF n = 0 THEN [cmds |-> <<>>, clock |-> t]
    ELSE LET rest == LongClickFrames(n - 1, t + LongClickWait + LongClickWait,
                                     dev, cfg, hex_x, hex_y)
         IN  [cmds |-> << SendX(t, dev, cfg, hex_x),
                          SendY(t, dev, cfg, hex_y),
                          SyncReport(t + LongClickWait, dev, cfg) >> \o rest.cmds,
              clock |-> rest.clock]

\* a hold at the first tap of the gesture instead of the centroid
LongClickBranchFirstTap(t0, dev, cfg, action) ==
    LET w        == WaitPerCommand
        curr_tap == Coords(action.taps[1].x, action.taps[1].y, 1)
        t1       == t0 + w
        held     == LongClickFrames(Len(action.frames), t1, dev, cfg,
                                    ScaledX(dev, curr_tap), ScaledY(dev, curr_tap))
        t2       == held.clock
        t3       == t2 + w
    IN  [event |-> Event("LONG_CLICK", curr_tap, curr_tap, 0, w,
                     << TrackStart(t0, dev, cfg) >> \o held.cmds \o
                     << SyncReport(t2, dev, cfg),
                        TrackRelease(t3, dev, cfg),
                        SyncReport(t3, dev, cfg) >>),
         clock |-> t3 + w]

LongClickBranch(t0, dev, cfg, action) ==
    LET w        == WaitPerCommand
        curr_tap == GetCentroid(action)
        t1       == t0 + w
        held     == LongClickFrames(Len(action.frames), t1, dev, cfg,
                                    ScaledX(dev, curr_tap), ScaledY(dev, curr_tap))
        t2       == held.clock
        t3       == t2 + w
    IN  [event |-> Event("LONG_CLICK", curr_tap, curr_tap, 0, w,
                     << TrackStart(t0, dev, cfg) >> \o held.cmds \o
                     << SyncReport(t2, dev, cfg),
                        TrackRelease(t3, dev, cfg),
                        SyncReport(t3, dev, cfg) >>),
         clock |-> t3 + w]

\* a path that sends the coordinates without the per-tap sync
RECURSIVE SwipeTapsNoSync(_, _, _, _)
SwipeTapsNoSync(taps, t, dev, cfg) ==
    IF taps = <<>> THEN [cmds |-> <<>>, clock |-> t]
    ELSE LET tap  == Coords(Head(taps).x, Head(taps).y, 1)
             rest == SwipeTapsNoSync(Tail(taps), t + WaitPerCommand + WaitPerCommand,
                                     dev, cfg)
         IN  [cmds |-> << SendX(t, dev, cfg, ScaledX(dev, tap)),
                          SendY(t, dev, cfg, ScaledY(dev, tap)) >> \o rest.cmds,
              clock |-> rest.clock]

\* a path that is sent from its last tap to its first
RECURSIVE SwipeTapsLastFirst(_, _, _, _)
SwipeTapsLastFirst(taps, t, dev, cfg) ==
    IF taps = <<>> THEN [cmds |-> <<>>, clock |-> t]
    ELSE LET last == taps[Len(taps)]
             tap  == Coords(last.x, last.y, 1)
             rest == SwipeTapsLastFirst(SubSeq(taps, 1, Len(taps) - 1),
                                        t + WaitPerCommand + WaitPerCommand, dev, cfg)
         IN  [cmds |-> << SendX(t, dev, cfg, ScaledX(dev, tap)),
                          SendY(t, dev, cfg, ScaledY(dev, tap)),
                          SyncReport(t + WaitPerCommand, dev, cfg) >> \o rest.cmds,
              clock |-> rest.clock]

\* for tap in curr_taps: that tap's x, y pair, then the sync
RECURSIVE SwipeTaps(_, _, _, _)
SwipeTaps(taps, t, dev, cfg) ==
    IF taps = <<>> THEN [cmds |-> <<>>, clock |-> t]
    ELSE LET tap  == Coords(Head(taps).x, Head(taps).y, 1)
             rest == SwipeTaps(Tail(taps), t + WaitPerCommand + WaitPerCommand,
                               dev, cfg)
         IN  [cmds |-> << SendX(t, dev, cfg, ScaledX(dev, tap)),
                          SendY(t, dev, cfg, ScaledY(dev, tap)),
                          SyncReport(t + WaitPerCommand, dev, cfg) >> \o rest.cmds,
              clock |-> rest.clock]

\* a Swipe whose event ends where it starts
SwipeBranchEndAtStart(t0, dev, cfg, action) ==
    LET w         == WaitPerCommand
        curr_taps == action.taps
        t1        == t0 + w
        path      == SwipeTaps(curr_taps, t1, dev, cfg)
        t2        == path.clock
        curr_tap  == curr_taps[1]
        last_tap  == curr_taps[1]
    IN  [event |-> Event("SWIPE", Coords(curr_tap.x, curr_tap.y, 1),
                         Coords(last_tap.x, last_tap.y, 1), 0, w,
                     << TrackStart(t0, dev, cfg) >> \o path.cmds \o
                     << TrackRelease(t2, dev, cfg),
                        SyncReport(t2, dev, cfg) >>),
         clock |-> t2 + w]

SwipeBranch(t0, dev, cfg, action) ==
    LET w         == WaitPerCommand
        curr_taps == action.taps
        t1        == t0 + w
        path      == SwipeTaps(curr_taps, t1, dev, cfg)
        t2        == path.clock
        curr_tap  == curr_taps[1]
        last_tap  == curr_taps[Len(curr_taps)]
    IN  [event |-> Event("SWIPE", Coords(curr_tap.x, curr_tap.y, 1),
                         Coords(last_tap.x, last_tap.y, 1), 0, w,
                     << TrackStart(t0, dev, cfg) >> \o path.cmds \o
                     << TrackRelease(t2, dev, cfg),
                        SyncReport(t2, dev, cfg) >>),
         clock |-> t2 + w]

-----------------------------------------------------------------------------
(* One pass of the for loop of convert_GUIAction_to_send_event *)

\* the exception the loop body raises on this action, or "none"
BodyError(action) ==
    CASE action.frames = <<>> -> "IndexError"
      [] action.type \in {"ActionType.CLICK", "ActionType.LONG_CLICK"}
           /\ ~HasCentroid(action) -> "MalformedGesture"
      [] action.type = "ActionType.SWIPE" /\ action.taps = <<>> -> "IndexError"
      [] OTHER -> "none"

\* the pause without the clamp at 0
PausedFramesNoClamp(action, frame) == action.frames[1] - frame

\* paused_frames = max(0, curr_frames[0] - curr_frame)
PausedFrames(action, frame) == PyMax(0, action.frames[1] - frame)

\* the cursor left at the first frame of the action
LastFrameIsFirst(action) == action.frames[1]

\* curr_frame = curr_frames[len(curr_frames) - 1]
LastFrame(action) == action.frames[Len(action.frames)]

\* delay_event = Event(label="DELAY", pause_dur=delay)
DelayEvent(delay) == Event("DELAY", None, None, delay, None, <<>>)

\* the if / elif / elif chain on action_type: the events appended after the
\* delay event and the clock left, from the clock t0 the delay has set
KindBranch(t0, dev, cfg, action) ==
    CASE action.type = "ActionType.CLICK" ->
           LET b == ClickBranch(t0, dev, cfg, action)
           IN  [events |-> <<b.event>>, clock |-> b.clock]
      [] action.type = "ActionType.LONG_CLICK" ->
           LET b == LongClickBranch(t0, dev, cfg, action)
           IN  [events |-> <<b.event>>, clock |-> b.clock]
      [] action.type = "ActionType.SWIPE" ->
           LET b == SwipeBranch(t0, dev, cfg, action)
           IN  [events |-> <<b.event>>, clock |-> b.clock]
      [] OTHER -> [events |-> <<>>, clock |-> t0]

\* a conversion that starts without the fake tap
InitialSendEventsEmpty(dev, cfg) == <<>>

\* send_events = []; send_events.append(self.add_fake_tap())
InitialSendEvents(dev, cfg) == <<AddFakeTap(dev, cfg)>>

\* a clock that does not take the delay
ClockWithoutDelay(t, delay) == t

\* curr_time_stamp += delay
ClockAfterDelay(t, delay) == t + delay

\* an event list that is extended instead of replaced
EventListExtended(old, new) == old \o new

\* self.event_list = send_events
EventListAssigned(old, new) == new

\* an extraction that puts each event's lines before those gathered so far
RECURSIVE ExtractRawPrepending(_)
ExtractRawPrepending(events) ==
    IF events = <<>> THEN <<>>
    ELSE ExtractRawPrepending(Tail(events)) \o Head(events).raw_commands

\* extract_raw_from_events: raw_commands.extend(event.get_raw_commands())
RECURSIVE ExtractRawFromEvents(_)
ExtractRawFromEvents(events) ==
    IF events = <<>> THEN <<>>
    ELSE Head(events).raw_commands \o ExtractRawFromEvents(Tail(events))

-----------------------------------------------------------------------------
(* Phase3V2S.execute: the choice of the device of the replay *)

\* the first line `adb devices` prints
DevicesTitle == "List of devices attached"

\* the serial numbers of the devices that can be connected
Serials == {"emulator-5554", "emulator-5556", "0A281FDD4001A", "R58M42HWXYZ"}

\* one line of `adb devices` below the title: serial, tab, state
DeviceLine(serial) == [serial |-> serial, state |-> "device"]

\* the lists of connected devices: no serial is listed twice
DeviceLists ==
    { l \in UNION { [1..n -> Serials] : n \in 0..MaxDevices } :
        \A i, j \in 1..Len(l) : i # j => l[i] # l[j] }

\* sp.check_output([adb, 'devices']).rstrip().decode().split('\n')
AdbDevices(l) == <<DevicesTitle>> \o [i \in 1..Len(l) |-> DeviceLine(l[i])]

\* the values of the keys arch and emulator of the configuration: execute
\* has a replay binary for the two values of arch only (lines 135-138)
P3Configs == [emulator : {"True", "False"}, arch : {"x86", "arm"}]

\* the truth value `if` gives a str: every str but the empty one is true
PyTruth(v) == v # ""

\* "emulator" in line.lower()
HasEmulator(line) == line.serial \in {"emulator-5554", "emulator-5556"}

\* line.split()[0]
FirstField(line) == line.serial

\* the for loop with break: the first line the test holds of, if there is one
FirstLine(lines, emu) ==
    LET found == {i \in 1..Len(lines) : HasEmulator(lines[i]) = emu}
    IN  IF found = {} THEN None
        ELSE FirstField(lines[CHOOSE i \in found : \A j \in found : i <= j])

\* init_device_for_replay(self, emulator): the name it returns or the
\* message it exits with
InitDeviceForReplay(emulator, out) ==
    IF Len(out) = 1
    THEN [device_name |-> None,
          exit |-> "Error: No device connected. Please begin an emulator session or connect device."]
    ELSE LET devices == Tail(out)
         IN  IF PyTruth(emulator)
             THEN IF FirstLine(devices, TRUE) = None
                  THEN [device_name |-> None,
                        exit |-> "Error: Emulator specified but not found to replay scenario."]
                  ELSE [device_name |-> FirstLine(devices, TRUE), exit |-> "none"]
             ELSE IF FirstLine(devices, FALSE) = None
                  THEN [device_name |-> None,
                        exit |-> "Error: Physical device specified but not found to replay scenario."]
                  ELSE [device_name |-> FirstLine(devices, FALSE), exit |-> "none"]

\* execute, lines 97-101: arch = self.config["arch"];
\* emulator = self.config["emulator"]=="True";
\* device_name = self.init_device_for_replay(arch)
ExecuteInitDevice(cfg, out) ==
    LET arch == cfg.arch
        emulator == cfg.emulator = "True"
    IN  InitDeviceForReplay(arch, out)

\* the state in which execute goes on to the conversion: an emulator is
\* connected and has been chosen
DeviceChosen ==
    /\ p3_config = [emulator |-> "True", arch |-> "x86"]
    /\ adb_devices = AdbDevices(<<"emulator-5554">>)
    /\ device_name = ExecuteInitDevice(p3_config, adb_devices).device_name

-----------------------------------------------------------------------------
(* Phase3V2S.execute, part 1 (event conversion), and the converter it runs *)

\* Phase3V2S.__init__ and Action2EventConverter.__init__
InitObjects ==
    /\ actions = None
    /\ config = None
    /\ input_dev = None
    /\ event_list = <<>>
    /\ raw_commands = <<>>
    /\ p3_events = <<>>
    /\ p3_raw_commands = <<>>
    /\ pc = "start"
    /\ idx = 0
    /\ send_events = <<>>
    /\ curr_frame = 0
    /\ curr_time_stamp = 0
    /\ steps = 0
    /\ err = "none"
    /\ files = {}
    /\ record_thread = "none"
    /\ trace = <<>>

Init ==
    /\ data \in DataFiles
    /\ device_config \in Profiles
    /\ InitObjects
    /\ DeviceChosen
    /\ other = None
    /\ other_data = <<>>

\* read_actions_from_json, set_actions, set_config
ReadActions ==
    /\ pc = "start"
    /\ actions' = ReadActionsFromJson(data)
    /\ config' = device_config
    /\ pc' = "configured"
    /\ err' = "none"
    /\ UNCHANGED <<data, device_config, input_dev, event_list, raw_commands,
                   p3_events, p3_raw_commands, idx, send_events, curr_frame,
                   curr_time_stamp, steps>>
    /\ UNCHANGED aux

\* init_input_device
InitInputDevice(cfg) ==
    [max_x |-> cfg.max_x, max_y |-> cfg.max_y,
     display_width |-> cfg.width, display_height |-> cfg.height,
     input_device |-> cfg.device]

\* the attributes init_input_device assigns, in its order, each with the key
\* it reads
InitOrder == << <<"max_x", "max_x">>, <<"max_y", "max_y">>,
                <<"display_width", "width">>, <<"display_height", "height">>,
                <<"input_device", "device">> >>

\* init_input_device on a profile that may lack keys: the attributes assigned
\* before the first key that is missing
InitInputDeviceUpTo(cfg) ==
    LET done == { i \in 1..Len(InitOrder) :
                    \A j \in 1..i : InitOrder[j][2] \in DOMAIN cfg }
    IN  [a \in { InitOrder[i][1] : i \in done } |->
            cfg[InitOrder[CHOOSE i \in done : InitOrder[i][1] = a][2]]]

\* execute(): init_input_device, then convert_GUIAction_to_send_event up to
\* the for loop
ExecuteConverter ==
    /\ pc = "configured"
    /\ MissingKeys(config) = {}
    /\ input_dev' = InitInputDevice(config)
    /\ send_events' = InitialSendEvents(input_dev', config)
    /\ curr_frame' = 1
    /\ curr_time_stamp' = ClockStart
    /\ steps' = 0
    /\ idx' = 1
    /\ pc' = "converting"
    /\ UNCHANGED <<data, device_config, actions, config, event_list,
                   raw_commands, p3_events, p3_raw_commands, err>>
    /\ UNCHANGED aux

\* an execute() that swallows the KeyError and returns
ExecuteRaisesSilently ==
    /\ pc = "configured"
    /\ MissingKeys(config) # {}
    /\ input_dev' = InitInputDeviceUpTo(config)
    /\ pc' = "converted"
    /\ UNCHANGED <<data, device_config, actions, config, event_list,
                   raw_commands, p3_events, p3_raw_commands, idx, send_events,
                   curr_frame, curr_time_stamp, steps, err>>
    /\ UNCHANGED aux

\* execute() on a profile that lacks a key: self.config[key] raises KeyError
\* in init_input_device or in the first lines of
\* convert_GUIAction_to_send_event, before send_events = []
ExecuteRaises ==
    /\ pc = "configured"
    /\ MissingKeys(config) # {}
    /\ input_dev' = InitInputDeviceUpTo(config)
    /\ pc' = "failed"
    /\ err' = "KeyError"
    /\ UNCHANGED <<data, device_config, actions, config, event_list,
                   raw_commands, p3_events, p3_raw_commands, idx, send_events,
                   curr_frame, curr_time_stamp, steps>>
    /\ UNCHANGED aux

\* the loop body on self.actions[idx], when it raises nothing
ConvertAction ==
    /\ pc = "converting"
    /\ idx <= Len(actions)
    /\ BodyError(actions[idx]) = "none"
    /\ LET curr_action == actions[idx]
           delay       == Delay(PausedFrames(curr_action, curr_frame))
           t0          == ClockAfterDelay(curr_time_stamp, delay)
           branch      == KindBranch(t0, input_dev, config, curr_action)
       IN  /\ curr_frame' = LastFrame(curr_action)
           /\ send_events' = Append(send_events, DelayEvent(delay)) \o branch.events
           /\ curr_time_stamp' = branch.clock
           /\ steps' = steps + (branch.clock - t0)
    /\ idx' = idx + 1
    /\ UNCHANGED <<data, device_config, actions, config, input_dev, event_list,
                   raw_commands, p3_events, p3_raw_commands, pc, err>>
    /\ UNCHANGED aux

\* a loop body whose exception is swallowed: the loop goes on to the next
\* action
ConvertRaisesSkips ==
    /\ pc = "converting"
    /\ idx <= Len(actions)
    /\ BodyError(actions[idx]) # "none"
    /\ idx' = idx + 1
    /\ UNCHANGED <<data, device_config, actions, config, input_dev, event_list,
                   raw_commands, p3_events, p3_raw_commands, pc, send_events,
                   curr_frame, curr_time_stamp, steps, err>>
    /\ UNCHANGED aux

\* the loop body on self.actions[idx], when it raises: the exception leaves
\* execute() and Phase3V2S.execute, and the locals are gone
ConvertRaises ==
    /\ pc = "converting"
    /\ idx <= Len(actions)
    /\ BodyError(actions[idx]) # "none"
    /\ err' = BodyError(actions[idx])
    /\ pc' = "failed"
    /\ send_events' = <<>>
    /\ idx' = 0
    /\ curr_frame' = 0
    /\ curr_time_stamp' = 0
    /\ steps' = 0
    /\ UNCHANGED <<data, device_config, actions, config, input_dev, event_list,
                   raw_commands, p3_events, p3_raw_commands>>
    /\ UNCHANGED aux

\* the end of the loop: self.event_list = send_events
ConvertReturns ==
    /\ pc = "converting"
    /\ idx > Len(actions)
    /\ event_list' = EventListAssigned(event_list, send_events)
    /\ pc' = "converted"
    /\ UNCHANGED <<data, device_config, actions, config, input_dev,
                   raw_commands, p3_events, p3_raw_commands, idx, send_events,
                   curr_frame, curr_time_stamp, steps, err>>
    /\ UNCHANGED aux

\* self.events = get_event_list(); self.raw_commands = extract_raw_from_events()
ExtractRaw ==
    /\ pc = "converted"
    /\ p3_events' = event_list
    /\ raw_commands' = ExtractRawFromEvents(event_list)
    /\ p3_raw_commands' = raw_commands'
    /\ pc' = "done"
    /\ UNCHANGED <<data, device_config, actions, config, input_dev, event_list,
                   idx, send_events, curr_frame, curr_time_stamp, steps, err>>
    /\ UNCHANGED aux

\* Phase3V2S.execute is called again on the same object and the same files
ExecuteAgain ==
    /\ pc \in {"done", "failed"}
    /\ pc' = "start"
    /\ UNCHANGED <<data, device_config, actions, config, input_dev, event_list,
                   raw_commands, p3_events, p3_raw_commands, idx, send_events,
                   curr_frame, curr_time_stamp, steps, err>>
    /\ UNCHANGED aux

Next ==
    \/ ReadActions
    \/ ExecuteConverter
    \/ ConvertAction
    \/ ConvertRaises
    \/ ConvertReturns
    \/ ExtractRaw
    \/ ExecuteAgain

Spec == Init /\ [][Next]_vars

-----------------------------------------------------------------------------
(* The conversion of one gesture whose taps lie anywhere, on either profile *)

InitScale ==
    /\ data \in ScaleDataFiles
    /\ device_config \in ScaleProfiles
    /\ InitObjects
    /\ DeviceChosen
    /\ other = None
    /\ other_data = <<>>

NextScale ==
    \/ ReadActions
    \/ ExecuteConverter
    \/ ConvertAction
    \/ ConvertReturns
    \/ ExtractRaw
    \/ ExecuteAgain

SpecScale == InitScale /\ [][NextScale]_vars

-----------------------------------------------------------------------------
(* Phase3V2S.execute, part 2 (replay), after the conversion of part 1, with  *)
(* the thread that records the screen                                       *)

ReplayDataFiles == {<<>>} \cup { <<d>> : d \in ActionDicts }

InitReplay ==
    /\ data \in ReplayDataFiles
    /\ device_config \in Profiles
    /\ InitObjects
    /\ DeviceChosen
    /\ other = None
    /\ other_data = <<>>

\* output_to_file(self.raw_commands, log_path), Translator.translate and
\* output_to_file(reran_data, reran_out_path)
WriteFiles ==
    /\ pc = "done"
    /\ files' = files \cup {"send_events.log", "events_4_reran.log"}
    /\ pc' = "written"
    /\ UNCHANGED <<data, device_config, actions, config, input_dev, event_list,
                   raw_commands, p3_events, p3_raw_commands, idx, send_events,
                   curr_frame, curr_time_stamp, steps, err, other, other_data,
                   record_thread, trace>>
    /\ UNCHANGED replay_device

\* adb push of the replay tool and of events_4_reran.log
PushFiles ==
    /\ pc = "written"
    /\ trace' = Append(trace, "push")
    /\ pc' = "pushed"
    /\ UNCHANGED <<data, device_config, actions, config, input_dev, event_list,
                   raw_commands, p3_events, p3_raw_commands, idx, send_events,
                   curr_frame, curr_time_stamp, steps, err, other, other_data,
                   files, record_thread>>
    /\ UNCHANGED replay_device

\* adb install
InstallApp ==
    /\ pc = "pushed"
    /\ trace' = Append(trace, "install")
    /\ pc' = "installed"
    /\ UNCHANGED <<data, device_config, actions, config, input_dev, event_list,
                   raw_commands, p3_events, p3_raw_commands, idx, send_events,
                   curr_frame, curr_time_stamp, steps, err, other, other_data,
                   files, record_thread>>
    /\ UNCHANGED replay_device

\* record_thread = RecordThread(...); record_thread.start()
StartRecording ==
    /\ pc = "installed"
    /\ record_thread' = "started"
    /\ trace' = Append(trace, "record_start")
    /\ pc' = "record_started"
    /\ UNCHANGED <<data, device_config, actions, config, input_dev, event_list,
                   raw_commands, p3_events, p3_raw_commands, idx, send_events,
                   curr_frame, curr_time_stamp, steps, err, other, other_data,
                   files>>
    /\ UNCHANGED replay_device

\* adb shell monkey, time.sleep(10)
LaunchApp ==
    /\ pc = "record_started"
    /\ trace' = Append(trace, "launch")
    /\ pc' = "launched"
    /\ UNCHANGED <<data, device_config, actions, config, input_dev, event_list,
                   raw_commands, p3_events, p3_raw_commands, idx, send_events,
                   curr_frame, curr_time_stamp, steps, err, other, other_data,
                   files, record_thread>>
    /\ UNCHANGED replay_device

\* adb root
RootDevice ==
    /\ pc = "launched"
    /\ trace' = Append(trace, "root")
    /\ pc' = "rooted"
    /\ UNCHANGED <<data, device_config, actions, config, input_dev, event_list,
                   raw_commands, p3_events, p3_raw_commands, idx, send_events,
                   curr_frame, curr_time_stamp, steps, err, other, other_data,
                   files, record_thread>>
    /\ UNCHANGED replay_device

\* adb shell chmod 755 /data/local/tmp/replay
ChmodReran ==
    /\ pc = "rooted"
    /\ trace' = Append(trace, "chmod")
    /\ pc' = "chmod_done"
    /\ UNCHANGED <<data, device_config, actions, config, input_dev, event_list,
                   raw_commands, p3_events, p3_raw_commands, idx, send_events,
                   curr_frame, curr_time_stamp, steps, err, other, other_data,
                   files, record_thread>>
    /\ UNCHANGED replay_device

\* check_output(execute_events): the replay tool is started on the pushed file
ExecuteEventsBegin ==
    /\ pc = "chmod_done"
    /\ trace' = Append(trace, "replay_begin")
    /\ pc' = "replaying"
    /\ UNCHANGED <<data, device_config, actions, config, input_dev, event_list,
                   raw_commands, p3_events, p3_raw_commands, idx, send_events,
                   curr_frame, curr_time_stamp, steps, err, other, other_data,
                   files, record_thread>>
    /\ UNCHANGED replay_device

\* check_output(execute_events) returns: the replay tool has exited
ExecuteEventsEnd ==
    /\ pc = "replaying"
    /\ trace' = Append(trace, "replay_end")
    /\ pc' = "replayed"
    /\ UNCHANGED <<data, device_config, actions, config, input_dev, event_list,
                   raw_commands, p3_events, p3_raw_commands, idx, send_events,
                   curr_frame, curr_time_stamp, steps, err, other, other_data,
                   files, record_thread>>
    /\ UNCHANGED replay_device

\* a stop signal sent while the replay tool still runs
KillRecordingEarly ==
    /\ pc = "replaying"
    /\ record_thread' = IF record_thread = "recording" THEN "interrupted"
                        ELSE record_thread
    /\ trace' = Append(trace, "kill")
    /\ pc' = "signalled"
    /\ UNCHANGED <<data, device_config, actions, config, input_dev, event_list,
                   raw_commands, p3_events, p3_raw_commands, idx, send_events,
                   curr_frame, curr_time_stamp, steps, err, other, other_data,
                   files>>
    /\ UNCHANGED replay_device

\* time.sleep(5); adb shell kill -SIGINT `pgrep -f screenrecord`: it ends
\* the screenrecord process if there is one
KillRecording ==
    /\ pc = "replayed"
    /\ record_thread' = IF record_thread = "recording" THEN "interrupted"
                        ELSE record_thread
    /\ trace' = Append(trace, "kill")
    /\ pc' = "signalled"
    /\ UNCHANGED <<data, device_config, actions, config, input_dev, event_list,
                   raw_commands, p3_events, p3_raw_commands, idx, send_events,
                   curr_frame, curr_time_stamp, steps, err, other, other_data,
                   files>>
    /\ UNCHANGED replay_device

\* record_thread.join(): returns once the thread has ended
JoinThread ==
    /\ pc = "signalled"
    /\ record_thread = "finished"
    /\ trace' = Append(trace, "join")
    /\ pc' = "joined"
    /\ UNCHANGED <<data, device_config, actions, config, input_dev, event_list,
                   raw_commands, p3_events, p3_raw_commands, idx, send_events,
                   curr_frame, curr_time_stamp, steps, err, other, other_data,
                   files, record_thread>>
    /\ UNCHANGED replay_device

\* time.sleep(3); adb pull of the recorded video
PullVideo ==
    /\ pc = "joined"
    /\ files' = files \cup {"replay.mp4"}
    /\ trace' = Append(trace, "pull")
    /\ pc' = "pulled"
    /\ UNCHANGED <<data, device_config, actions, config, input_dev, event_list,
                   raw_commands, p3_events, p3_raw_commands, idx, send_events,
                   curr_frame, curr_time_stamp, steps, err, other, other_data,
                   record_thread>>
    /\ UNCHANGED replay_device

\* a subprocess.check_output whose command exits with an error: it raises
\* CalledProcessError, which leaves execute (push, root, chmod, the replay,
\* pull)
AdbFails ==
    /\ pc \in {"written", "launched", "rooted", "replaying", "joined"}
    /\ err' = "CalledProcessError"
    /\ pc' = "failed"
    /\ UNCHANGED <<data, device_config, actions, config, input_dev, event_list,
                   raw_commands, p3_events, p3_raw_commands, idx, send_events,
                   curr_frame, curr_time_stamp, steps, other, other_data,
                   files, record_thread, trace>>
    /\ UNCHANGED replay_device

\* RecordThread.run: the thread gets to start screenrecord on the device
ThreadBeginsRecording ==
    /\ record_thread = "started"
    /\ record_thread' = "recording"
    /\ UNCHANGED <<data, device_config, converter, other, other_data, files,
                   trace>>
    /\ UNCHANGED replay_device

\* RecordThread.run returns: screenrecord has exited, on the signal or at its
\* time limit
ThreadEnds ==
    /\ record_thread \in {"recording", "interrupted"}
    /\ record_thread' = "finished"
    /\ UNCHANGED <<data, device_config, converter, other, other_data, files,
                   trace>>
    /\ UNCHANGED replay_device

NextReplay ==
    \/ ReadActions
    \/ ExecuteConverter
    \/ ConvertAction
    \/ ConvertRaises
    \/ ConvertReturns
    \/ ExtractRaw
    \/ WriteFiles
    \/ PushFiles
    \/ InstallApp
    \/ StartRecording
    \/ LaunchApp
    \/ RootDevice
    \/ ChmodReran
    \/ ExecuteEventsBegin
    \/ ExecuteEventsEnd
    \/ KillRecording
    \/ JoinThread
    \/ PullVideo
    \/ AdbFails
    \/ ThreadBeginsRecording
    \/ ThreadEnds

SpecReplay == InitReplay /\ [][NextReplay]_vars

-----------------------------------------------------------------------------
(* Two converters, given the same profile, whose methods run interleaved *)

\* Action2EventConverter.__init__ of the second converter
OtherInit ==
    [actions |-> None, config |-> None, input_dev |-> None, event_list |-> <<>>,
     raw_commands |-> <<>>, pc |-> "start", idx |-> 0, send_events |-> <<>>,
     curr_frame |-> 0, curr_time_stamp |-> 0, err |-> "none"]

InitTwo ==
    /\ data \in TwoDataFiles
    /\ other_data \in TwoDataFiles
    /\ device_config \in Profiles
    /\ InitObjects
    /\ DeviceChosen
    /\ other = OtherInit

\* a list of events that is one list for all converters
OtherSendEventsShared == send_events

\* send_events as the second converter's call sees it: a local of the call
OtherSendEvents == other.send_events

\* set_actions, set_config of the second converter
OtherSetUp ==
    /\ other.pc = "start"
    /\ other' = [other EXCEPT !.actions = ReadActionsFromJson(other_data),
                              !.config = device_config,
                              !.pc = "configured"]
    /\ UNCHANGED <<data, device_config, converter, other_data, files,
                   record_thread, trace>>
    /\ UNCHANGED replay_device

\* execute() of the second converter up to the for loop
OtherExecute ==
    /\ other.pc = "configured"
    /\ MissingKeys(other.config) = {}
    /\ LET dev == InitInputDevice(other.config)
       IN  other' = [other EXCEPT
                        !.input_dev = dev,
                        !.send_events = InitialSendEvents(dev, other.config),
                        !.curr_frame = 1,
                        !.curr_time_stamp = ClockStart,
                        !.idx = 1,
                        !.pc = "converting"]
    /\ UNCHANGED <<data, device_config, converter, other_data, files,
                   record_thread, trace>>
    /\ UNCHANGED replay_device

\* the loop body of the second converter, when it raises nothing
OtherConvertAction ==
    /\ other.pc = "converting"
    /\ other.idx <= Len(other.actions)
    /\ BodyError(other.actions[other.idx]) = "none"
    /\ LET curr_action == other.actions[other.idx]
           delay       == Delay(PausedFrames(curr_action, other.curr_frame))
           t0          == ClockAfterDelay(other.curr_time_stamp, delay)
           branch      == KindBranch(t0, other.input_dev, other.config, curr_action)
       IN  other' = [other EXCEPT
                        !.curr_frame = LastFrame(curr_action),
                        !.send_events = Append(OtherSendEvents, DelayEvent(delay))
                                            \o branch.events,
                        !.curr_time_stamp = branch.clock,
                        !.idx = other.idx + 1]
    /\ UNCHANGED <<data, device_config, converter, other_data, files,
                   record_thread, trace>>
    /\ UNCHANGED replay_device

\* the loop body of the second converter, when it raises
OtherConvertRaises ==
    /\ other.pc = "converting"
    /\ other.idx <= Len(other.actions)
    /\ BodyError(other.actions[other.idx]) # "none"
    /\ other' = [other EXCEPT
                    !.err = BodyError(other.actions[other.idx]),
                    !.pc = "failed",
                    !.send_events = <<>>,
                    !.idx = 0,
                    !.curr_frame = 0,
                    !.curr_time_stamp = 0]
    /\ UNCHANGED <<data, device_config, converter, other_data, files,
                   record_thread, trace>>
    /\ UNCHANGED replay_device

\* the end of the loop of the second converter
OtherConvertReturns ==
    /\ other.pc = "converting"
    /\ other.idx > Len(other.actions)
    /\ other' = [other EXCEPT
                    !.event_list = EventListAssigned(other.event_list, OtherSendEvents),
                    !.pc = "converted"]
    /\ UNCHANGED <<data, device_config, converter, other_data, files,
                   record_thread, trace>>
    /\ UNCHANGED replay_device

\* extract_raw_from_events of the second converter
OtherExtractRaw ==
    /\ other.pc = "converted"
    /\ other' = [other EXCEPT
                    !.raw_commands = ExtractRawFromEvents(other.event_list),
                    !.pc = "done"]
    /\ UNCHANGED <<data, device_config, converter, other_data, files,
                   record_thread, trace>>
    /\ UNCHANGED replay_device

NextTwo ==
    \/ ReadActions
    \/ ExecuteConverter
    \/ ConvertAction
    \/ ConvertRaises
    \/ ConvertReturns
    \/ ExtractRaw
    \/ OtherSetUp
    \/ OtherExecute
    \/ OtherConvertAction
    \/ OtherConvertRaises
    \/ OtherConvertReturns
    \/ OtherExtractRaw

SpecTwo == InitTwo /\ [][NextTwo]_vars

-----------------------------------------------------------------------------
(* The conversion on a profile that may lack a key *)

InitProfile ==
    /\ data \in ProfileDataFiles
    /\ device_config \in {Profile} \cup IncompleteProfiles
    /\ InitObjects
    /\ DeviceChosen
    /\ other = None
    /\ other_data = <<>>

NextProfile ==
    \/ ReadActions
    \/ ExecuteConverter
    \/ ExecuteRaises
    \/ ConvertAction
    \/ ConvertReturns
    \/ ExtractRaw
    \/ ExecuteAgain

SpecProfile == InitProfile /\ [][NextProfile]_vars

-----------------------------------------------------------------------------
(* Phase3V2S.execute from its first line, with any devices connected *)

InitDevice ==
    /\ data \in {<<>>}
    /\ device_config \in Profiles
    /\ InitObjects
    /\ other = None
    /\ other_data = <<>>
    /\ p3_config \in P3Configs
    /\ adb_devices \in { AdbDevices(l) : l \in DeviceLists }
    /\ device_name = None

\* execute up to the device name: sys.exit leaves execute with SystemExit
ChooseDevice ==
    /\ pc = "start"
    /\ device_name = None
    /\ LET r == ExecuteInitDevice(p3_config, adb_devices)
       IN  /\ device_name' = r.device_name
           /\ err' = r.exit
           /\ pc' = IF r.exit = "none" THEN "start" ELSE "exited"
    /\ UNCHANGED <<data, device_config, actions, config, input_dev, event_list,
                   raw_commands, p3_events, p3_raw_commands, idx, send_events,
                   curr_frame, curr_time_stamp, steps, other, other_data,
                   files, record_thread, trace, p3_config, adb_devices>>

NextDevice ==
    \/ ChooseDevice

SpecDevice == InitDevice /\ [][NextDevice]_vars

-----------------------------------------------------------------------------
(* Vocabulary of the properties *)

Converted == pc \in {"converted", "done"}

KnownKinds(d) == \A i \in 1..Len(d) : d[i].act_type \in ActTypeNames

\* the event the conversion of a list of known kinds puts for its i-th action
GestureEvent(i) == event_list[2 * i + 1]

DelayMarker(i) == event_list[2 * i]

NonDecreasing(cmds) ==
    \A i \in 1..(Len(cmds) - 1) : cmds[i].ts <= cmds[i + 1].ts

\* the synthetic off-screen tap: a CLICK at (0, 0) stamped from 0 whose two
\* coordinate lines carry ffffffff
IsBootstrap(e) ==
    /\ e.label = "CLICK"
    /\ e.start = Coords(0, 0, 1)
    /\ e.end = Coords(0, 0, 1)
    /\ Len(e.raw_commands) = 10
    /\ e.raw_commands[1].ts = 0
    /\ e.raw_commands[4].val = "ffffffff"
    /\ e.raw_commands[5].val = "ffffffff"

RECURSIVE SumPauses(_)
SumPauses(events) ==
    IF events = <<>> THEN 0 ELSE Head(events).pause_dur + SumPauses(Tail(events))

-----------------------------------------------------------------------------
\* C1: for every non-empty sequence of Click / LongClick / Swipe gestures the
\* timestamps of the flat raw-command sequence that extract_raw_from_events
\* returns (the bootstrap lines, then every gesture's lines) never decrease
\* from one line to the next.
C1_TimestampsNonDecreasing ==
    (pc = "done" /\ Len(data) >= 1 /\ KnownKinds(data))
        => (raw_commands = p3_raw_commands /\ NonDecreasing(raw_commands))

\* a run of two gestures, the second starting before the first one ended
C1_Witness ==
    /\ pc = "done"
    /\ Len(data) = 2
    /\ KnownKinds(data)
    /\ data[1].frames = <<10, 11, 12>>
    /\ data[2].frames = <<3, 4, 5, 6>>
    /\ Len(raw_commands) > 20

\* C2: after any successful conversion the bootstrap event is present and is
\* the first element of the event list, whatever the number (zero included)
\* and the kinds of the gestures.
C2_BootstrapFirst ==
    /\ Converted => Len(event_list) >= 1
    /\ Len(event_list) >= 1 => IsBootstrap(event_list[1])

C2_Witness ==
    /\ pc = "converted"
    /\ Len(data) = 2
    /\ data[1].act_type = "SWIPE"
    /\ data[2].act_type = "LONG_CLICK"
    /\ Len(event_list) = 5

\* C3: a gesture list holding an act_type other than CLICK, LONG_CLICK, SWIPE
\* makes the conversion fail with an unrecognized-action-type error, leaving
\* no event list and no raw commands.
C3_UnknownTypeFails ==
    (\E i \in 1..Len(data) : data[i].act_type \notin ActTypeNames)
        => /\ ~Converted
           /\ event_list = <<>>
           /\ raw_commands = <<>>

-----------------------------------------------------------------------------
\* the list of one Click spanning frame 5 alone
SingleClick(d) ==
    /\ Len(d) = 1
    /\ d[1].act_type = "CLICK"
    /\ d[1].frames = <<5>>
    /\ d[1].taps # <<>>

\* the outcome of the single-Click scenario, with the Click's line count left
\* open: bootstrap, one delay marker for max(0, 5 - 1) = 4 paused frames, the
\* Click event
SingleClickEvents(lines) ==
    /\ Len(event_list) = 3
    /\ IsBootstrap(event_list[1])
    /\ event_list[2].label = "DELAY"
    /\ event_list[2].pause_dur * DELAY_OFFSET = 4 * TicksPerSecond
    /\ event_list[3].label = "CLICK"
    /\ Len(event_list[3].raw_commands) = lines

\* every Click of a converted list of known kinds has this many lines
EveryClickHas(lines) ==
    \A i \in 1..Len(data) :
        data[i].act_type = "CLICK"
            => /\ GestureEvent(i).label = "CLICK"
               /\ Len(GestureEvent(i).raw_commands) = lines

\* C4 as stated: a single Click with frames = [5] yields the bootstrap event,
\* one delay marker for 4 paused frames and a Click event of exactly 9 lines;
\* every Click event has exactly 9 lines.
C4_ClickNineLines ==
    /\ (pc = "converted" /\ SingleClick(data)) => SingleClickEvents(9)
    /\ (pc = "converted" /\ KnownKinds(data)) => EveryClickHas(9)

\* C4 amended: the same, with exactly 10 lines for the Click event (tracking
\* start, two key-down lines, x, y, touch major, pressure, sync, release,
\* sync).
C4_ClickTenLines ==
    /\ (pc = "converted" /\ SingleClick(data)) => SingleClickEvents(10)
    /\ (pc = "converted" /\ KnownKinds(data)) => EveryClickHas(10)

C4_Witness ==
    /\ pc = "converted"
    /\ SingleClick(data)
    /\ data[1].taps = OneTap
    /\ Len(event_list) = 3

\* every Swipe of a converted list of known kinds has 1 + perTap * n + 2
\* lines, n the number of its taps
EverySwipeHas(perTap) ==
    \A i \in 1..Len(data) :
        data[i].act_type = "SWIPE"
            => /\ GestureEvent(i).label = "SWIPE"
               /\ Len(GestureEvent(i).raw_commands)
                    = 1 + perTap * Len(data[i].taps) + 2

\* C5 as stated: a Swipe with n >= 1 path taps yields an Event of exactly
\* 1 + 2*n + 2 lines (9 for n = 3).
C5_SwipeTwoPerTap ==
    (pc = "converted" /\ KnownKinds(data)) => EverySwipeHas(2)

\* C5 amended: a Swipe with n >= 1 path taps yields an Event of exactly
\* 1 + 3*n + 2 lines: tracking start, per tap an x line, a y line and a sync
\* line, then release and trailing sync; 12 lines for n = 3.
C5_SwipeThreePerTap ==
    /\ (pc = "converted" /\ KnownKinds(data)) => EverySwipeHas(3)
    /\ \A i \in 1..Len(data) :
         (pc = "converted" /\ KnownKinds(data) /\ data[i].act_type = "SWIPE"
            /\ Len(data[i].taps) = 3)
                => Len(GestureEvent(i).raw_commands) = 12

C5_Witness ==
    /\ pc = "converted"
    /\ Len(data) = 1
    /\ data[1].act_type = "SWIPE"
    /\ data[1].frames = <<10, 11, 12>>
    /\ data[1].taps = ThreeTaps
    /\ Len(event_list) = 3

\* every LongClick of a converted list of known kinds has
\* 1 + perFrame * n + 1 + 2 lines, n the number of its frames
EveryLongClickHas(perFrame) ==
    \A i \in 1..Len(data) :
        data[i].act_type = "LONG_CLICK"
            => /\ GestureEvent(i).label = "LONG_CLICK"
               /\ Len(GestureEvent(i).raw_commands)
                    = 1 + perFrame * Len(data[i].frames) + 1 + 2

\* C6 as stated: a LongClick spanning n >= 1 frames yields an Event of
\* exactly 1 + 2*n + 1 + 2 lines (11 for n = 4).
C6_LongClickTwoPerFrame ==
    (pc = "converted" /\ KnownKinds(data)) => EveryLongClickHas(2)

\* C6 amended: a LongClick spanning n >= 1 frames yields an Event of exactly
\* 1 + 3*n + 1 + 2 lines: tracking start, per frame an x line, a y line and a
\* sync line, then the closing sync, release and trailing sync; 16 lines for
\* n = 4.
C6_LongClickThreePerFrame ==
    /\ (pc = "converted" /\ KnownKinds(data)) => EveryLongClickHas(3)
    /\ \A i \in 1..Len(data) :
         (pc = "converted" /\ KnownKinds(data) /\ data[i].act_type = "LONG_CLICK"
            /\ Len(data[i].frames) = 4)
                => Len(GestureEvent(i).raw_commands) = 16

C6_Witness ==
    /\ pc = "converted"
    /\ Len(data) = 1
    /\ data[1].act_type = "LONG_CLICK"
    /\ data[1].frames = <<3, 4, 5, 6>>
    /\ Len(event_list) = 3

-----------------------------------------------------------------------------
LastTs(cmds) == cmds[Len(cmds)].ts

\* the start timestamp of the bootstrap event
BootstrapStartTs == event_list[1].raw_commands[1].ts

\* the five steps of 0.001 that add_fake_tap adds to its own clock
FakeTapSteps == 5 * FakeTapWait

\* C7 as stated: for every gesture sequence the sum of the delay markers'
\* pause_duration plus the sum of the fixed per-command time steps (those of
\* the gestures, or those and the bootstrap's) equals the timestamp of the
\* final emitted line minus the bootstrap's start timestamp.  (Read here on
\* the non-empty sequences of Click / LongClick / Swipe gestures.)
C7_DelayAccountingFromBootstrap ==
    (pc = "done" /\ Len(data) >= 1 /\ KnownKinds(data)) =>
        LET elapsed == LastTs(raw_commands) - BootstrapStartTs
        IN  \/ SumPauses(event_list) + steps = elapsed
            \/ SumPauses(event_list) + steps + FakeTapSteps = elapsed

\* C7 amended: the clock always equals its start value 1.0 plus the sum of the
\* pause_duration of the delay markers emitted so far plus the sum of the
\* steps added so far; and for every non-empty sequence of Click / LongClick
\* / Swipe gestures the timestamp of the final emitted line minus the
\* bootstrap's start timestamp (0) is 1.0 plus the pauses plus the steps minus
\* the last step wait_per_command, which is added after the final line.
C7_DelayAccountingFromClockStart ==
    /\ pc \in {"converting", "converted", "done"}
         => curr_time_stamp = ClockStart + SumPauses(send_events) + steps
    /\ (pc = "done" /\ Len(data) >= 1 /\ KnownKinds(data))
         => /\ BootstrapStartTs = 0
            /\ LastTs(raw_commands) - BootstrapStartTs
                 = ClockStart + SumPauses(event_list) + steps - WaitPerCommand

C7_Witness ==
    /\ pc = "done"
    /\ Len(data) = 2
    /\ KnownKinds(data)
    /\ data[1].act_type = "LONG_CLICK"
    /\ data[2].act_type = "SWIPE"
    /\ event_list[2].pause_dur > 0
    /\ event_list[4].pause_dur > 0
    /\ steps > 0

\* C8: running execute() and extract_raw_from_events() again on the same
\* gesture sequence and profile yields the raw commands of the run before,
\* and the second run's event list replaces the first one's: it is the same
\* list, not that list twice.
C8_Idempotent ==
    [][(pc = "converted" /\ pc' = "done" /\ p3_raw_commands # <<>>)
         => /\ raw_commands' = p3_raw_commands
            /\ event_list = p3_events
            /\ Len(event_list) = Len(p3_events)]_vars

\* a second run, converted and about to be extracted, with the first run's
\* output still held by the caller
C8_Witness ==
    /\ pc = "converted"
    /\ p3_raw_commands # <<>>
    /\ raw_commands = p3_raw_commands
    /\ Len(data) = 2
    /\ KnownKinds(data)

\* C9: the frame cursor starts at 1 (and the clock at 1.0); each pass of the
\* loop computes paused_frames = max(0, first frame - cursor), appends a delay
\* marker with pause_duration = paused_frames / DELAY_OFFSET and no raw
\* commands, advances the clock by exactly that delay, never a negative
\* amount, before the gesture's first line is stamped, and leaves the cursor
\* at the gesture's last frame.
C9_DelayPerGesture ==
    [][/\ (pc = "configured" /\ pc' = "converting")
            => (curr_frame' = 1 /\ curr_time_stamp' = ClockStart)
       /\ (pc = "converting" /\ idx' = idx + 1)
            => LET g      == actions[idx]
                   first  == g.frames[1]
                   paused == IF first - curr_frame > 0 THEN first - curr_frame
                             ELSE 0
                   marker == send_events'[Len(send_events) + 1]
               IN  /\ marker.label = "DELAY"
                   /\ marker.pause_dur * DELAY_OFFSET = paused * TicksPerSecond
                   /\ marker.pause_dur >= 0
                   /\ marker.raw_commands = <<>>
                   /\ curr_time_stamp' - (steps' - steps)
                        = curr_time_stamp + marker.pause_dur
                   /\ g.type \in ActionTypes
                        => send_events'[Len(send_events) + 2].raw_commands[1].ts
                             = curr_time_stamp + marker.pause_dur
                   /\ curr_frame' = g.frames[Len(g.frames)]]_vars

\* the loop has passed a gesture that starts before the cursor (no pause) and
\* one that starts after it
C9_Witness ==
    /\ pc = "converting"
    /\ idx = 3
    /\ data[1].frames = <<10, 11, 12>>
    /\ data[2].frames = <<3, 4, 5, 6>>
    /\ send_events[2].pause_dur > 0
    /\ send_events[4].pause_dur = 0
    /\ curr_frame = 6

\* C10: for a gesture list of n gestures the event list has exactly 2*n + 1
\* events: the bootstrap event, then for the i-th gesture a delay marker
\* immediately followed by the event of that gesture, labelled with its kind;
\* no gesture is reordered, dropped or duplicated.
C10_TwoEventsPerGesture ==
    pc = "converted" =>
        /\ Len(event_list) = 2 * Len(data) + 1
        /\ IsBootstrap(event_list[1])
        /\ \A i \in 1..Len(data) :
             /\ DelayMarker(i).label = "DELAY"
             /\ GestureEvent(i).label = data[i].act_type

-----------------------------------------------------------------------------
RECURSIVE SumLines(_)
SumLines(events) ==
    IF events = <<>> THEN 0
    ELSE Len(Head(events).raw_commands) + SumLines(Tail(events))

\* the number of lines of the events before the k-th
LinesBefore(events, k) == SumLines(SubSeq(events, 1, k - 1))

\* C11: extract_raw_from_events returns exactly the concatenation of every
\* Event's raw_commands in event-list order: each event's lines sit, in
\* order, right after the lines of the events before it; delay markers
\* contribute no lines, so the flat length is the sum of the bootstrap's and
\* the gesture events' line counts; and the converter's stored raw_commands
\* is the returned sequence.
C11_FlatIsConcatenation ==
    pc = "done" =>
        /\ raw_commands = p3_raw_commands
        /\ Len(raw_commands) = SumLines(event_list)
        /\ \A k \in 1..Len(event_list) :
             LET e   == event_list[k]
                 off == LinesBefore(event_list, k)
             IN  /\ SubSeq(raw_commands, off + 1, off + Len(e.raw_commands))
                      = e.raw_commands
                 /\ e.label = "DELAY" => e.raw_commands = <<>>
        /\ Len(raw_commands)
             = SumLines(SelectSeq(event_list, LAMBDA e : e.label # "DELAY"))

C11_Witness ==
    /\ pc = "done"
    /\ Len(event_list) = 5
    /\ event_list[3].label = "SWIPE"
    /\ event_list[5].label = "CLICK"
    /\ Len(raw_commands) = 10 + 12 + 10

-----------------------------------------------------------------------------
\* a gesture without frames, or a Click / LongClick / Swipe without taps
Malformed(d) ==
    \/ d.frames = <<>>
    \/ d.act_type \in ActTypeNames /\ d.taps = <<>>

-----------------------------------------------------------------------------
\* a failed run left the converter's event list and raw commands as the
\* last completed run (or the construction) left them
FailureLeavesOutput ==
    pc = "failed" => (event_list = p3_events /\ raw_commands = p3_raw_commands)

\* in the events built so far a gesture got its delay marker and no event,
\* and an event of a later gesture follows
SkippedThenEncoded(events) ==
    \E k \in 1..(Len(events) - 1) :
        /\ events[k].label = "DELAY"
        /\ events[k + 1].label = "DELAY"
        /\ \E m \in (k + 2)..Len(events) : events[m].label # "DELAY"

\* C13: encoding is all-or-nothing: when the conversion fails on its k-th
\* gesture, the converter's event list and raw commands hold none of the
\* events built for gestures 1..k-1 (they are as they were before execute);
\* and no gesture is ever skipped while later gestures are still encoded.
C13_AllOrNothing ==
    /\ FailureLeavesOutput
    /\ ~SkippedThenEncoded(send_events)
    /\ ~SkippedThenEncoded(event_list)

-----------------------------------------------------------------------------
\* the type, code and value of the ten lines of a Click, x and y values left
\* open; and the number of clock steps that precede each line
ClickLineKinds(cfg) ==
    << <<cfg.EV_ABS, cfg.TRACK_ID, "00000000">>,
       <<cfg.EV_KEY, "014a", "00000001">>,
       <<cfg.EV_KEY, "0145", "00000001">>,
       <<cfg.EV_ABS, cfg.X>>,
       <<cfg.EV_ABS, cfg.Y>>,
       <<cfg.EV_ABS, cfg.MAJOR, "00000005">>,
       <<cfg.EV_ABS, cfg.PRESS, DEF_PRESSURE>>,
       <<cfg.EV_SYN, cfg.EV_SYN, "00000000">>,
       <<cfg.EV_ABS, cfg.TRACK_ID, "ffffffff">>,
       <<cfg.EV_SYN, cfg.EV_SYN, "00000000">> >>

ClickLineGroups == <<0, 0, 0, 1, 1, 2, 2, 3, 4, 4>>

ClickInOrder(e, cfg) ==
    LET cmds == e.raw_commands
        kinds == ClickLineKinds(cfg)
    IN  /\ Len(cmds) = Len(kinds)
        /\ \A k \in 1..Len(kinds) :
             /\ cmds[k].type = kinds[k][1]
             /\ cmds[k].code = kinds[k][2]
             /\ Len(kinds[k]) = 3 => cmds[k].val = kinds[k][3]
             /\ cmds[k].ts = cmds[1].ts + ClickLineGroups[k] * WaitPerCommand

\* C20: the raw commands of a Click are, in this order, tracking-id start,
\* the two key-down markers, the x value, the y value, touch-major, pressure,
\* sync, tracking-id release (ffffffff), sync; the lines of one group (start
\* and keys / x and y / touch-major and pressure / sync / release and sync)
\* carry one timestamp and the clock advances by wait_per_command after each
\* of the five groups, the last included.
C20_ClickOrder ==
    (pc = "converting" /\ KnownKinds(data)) =>
        \A i \in 1..(idx - 1) :
            data[i].act_type = "CLICK" =>
                LET e == send_events[2 * i + 1]
                IN  /\ e.label = "CLICK"
                    /\ ClickInOrder(e, config)
                    /\ i = idx - 1 =>
                         curr_time_stamp = e.raw_commands[10].ts + WaitPerCommand

\* the loop has just encoded a Click, the second gesture of its list
C20_Witness ==
    /\ pc = "converting"
    /\ idx = 3
    /\ KnownKinds(data)
    /\ data[2].act_type = "CLICK"
    /\ Len(send_events) = 5
    /\ send_events[5].label = "CLICK"

-----------------------------------------------------------------------------
\* the x lines and the y lines of an event, in order
XLines(e, cfg) == SelectSeq(e.raw_commands, LAMBDA c : c.code = cfg.X)

YLines(e, cfg) == SelectSeq(e.raw_commands, LAMBDA c : c.code = cfg.Y)

\* the point the k-th coordinate pair of a gesture's event stands for: the
\* k-th tap of a Swipe, the centroid of a Click or LongClick
PointOfPair(d, k) ==
    IF d.act_type = "SWIPE" THEN Coords(d.taps[k].x, d.taps[k].y, 1)
    ELSE Coords(SumX(d.taps), SumY(d.taps), Len(d.taps))

\* n as 8 lowercase hex digits, most significant first
ToHex8(n) == Join([i \in 1..8 |-> HexDigit((n \div (16 ^ (8 - i))) % 16)])

\* C14 as stated: whenever a coordinate handed to the scaling is negative and
\* its scaled, truncated integer is negative, for the bootstrap and for any
\* tap of a gesture, the value field emitted for that axis is ffffffff.
C14_NegativeGivesSentinel ==
    pc = "converted" =>
        /\ PyInt(-(device_config.max_x + 1), device_config.width) < 0
             => event_list[1].raw_commands[4].val = "ffffffff"
        /\ PyInt(-(device_config.max_y + 1), device_config.height) < 0
             => event_list[1].raw_commands[5].val = "ffffffff"
        /\ \A i \in 1..Len(data) :
             LET xs == XLines(GestureEvent(i), device_config)
                 ys == YLines(GestureEvent(i), device_config)
             IN  \A k \in 1..Len(xs) :
                    LET pt == PointOfPair(data[i], k)
                    IN  /\ (pt.x < 0 /\ PyInt(pt.x * (device_config.max_x + 1),
                                              pt.den * device_config.width) < 0)
                             => xs[k].val = "ffffffff"
                        /\ (pt.y < 0 /\ PyInt(pt.y * (device_config.max_y + 1),
                                              pt.den * device_config.height) < 0)
                             => ys[k].val = "ffffffff"

-----------------------------------------------------------------------------
\* C15: for every pixel coordinate that is not negative, the value emitted on
\* its coordinate line is floor(pixel * (max + 1) / dimension), x with max_x
\* and width, y with max_y and height, as exactly 8 lowercase hex digits
\* padded with zeros on the left; (100, 200) with maxima 4095 on a 1080x1920
\* display gives 0000017b and 000001aa.
C15_ScaledHex ==
    pc = "converted" =>
        /\ \A i \in 1..Len(data) :
             LET xs == XLines(GestureEvent(i), device_config)
                 ys == YLines(GestureEvent(i), device_config)
             IN  /\ Len(xs) >= 1
                 /\ Len(ys) = Len(xs)
                 /\ \A k \in 1..Len(xs) :
                      LET pt == PointOfPair(data[i], k)
                      IN  /\ pt.x >= 0 =>
                               xs[k].val = ToHex8((pt.x * (device_config.max_x + 1))
                                                  \div (pt.den * device_config.width))
                          /\ pt.y >= 0 =>
                               ys[k].val = ToHex8((pt.y * (device_config.max_y + 1))
                                                  \div (pt.den * device_config.height))
        /\ (data[1].taps = OneTap /\ device_config = Profile) =>
               /\ XLines(GestureEvent(1), device_config)[1].val = "0000017b"
               /\ YLines(GestureEvent(1), device_config)[1].val = "000001aa"

\* a Swipe from (100, 200) to (1079, 1919) was converted
C15_Witness ==
    /\ pc = "converted"
    /\ device_config = Profile
    /\ data[1].act_type = "SWIPE"
    /\ data[1].taps = <<[x |-> 100, y |-> 200], [x |-> 1079, y |-> 1919]>>
    /\ XLines(GestureEvent(1), device_config)[1].val = "0000017b"
    /\ XLines(GestureEvent(1), device_config)[2].val = "00000ffc"

-----------------------------------------------------------------------------
\* a/b < c/d, for b, d > 0
RatLess(p, q) ==
    LET g == GCD(p.den, q.den)
    IN  p.num * (q.den \div g) < q.num * (p.den \div g)

\* the taps of a gesture and their centroid
PointsOf(action) ==
    { Coords(action.taps[j].x, action.taps[j].y, 1) : j \in 1..Len(action.taps) }
        \cup { GetCentroid(action) }

\* C16: the scaling preserves order: for one display width and max_x + 1 > 0,
\* of two pixel values x1 < x2 the scaled x of the first is strictly less
\* than that of the second, and the pixel 0 is scaled to 0; likewise for y.
C16_ScalingOrderPreserving ==
    pc \in {"converting", "converted", "done"} =>
        \A a \in 1..Len(actions) : \A t1, t2 \in PointsOf(actions[a]) :
            /\ t1.x * t2.den < t2.x * t1.den
                 => RatLess(ScaleX(input_dev, t1), ScaleX(input_dev, t2))
            /\ t1.y * t2.den < t2.y * t1.den
                 => RatLess(ScaleY(input_dev, t1), ScaleY(input_dev, t2))
            /\ t1.x = 0 => (ScaleX(input_dev, t1).num = 0
                            /\ ScaledX(input_dev, t1) = "00000000")
            /\ t1.y = 0 => (ScaleY(input_dev, t1).num = 0
                            /\ ScaledY(input_dev, t1) = "00000000")

\* a Swipe from pixel (0, 0) to pixel (1, 1) was converted for the coarse
\* panel: the scaled values differ, and both are emitted as 00000000
C16_Witness ==
    /\ pc = "converted"
    /\ device_config = CoarseProfile
    /\ data[1].act_type = "SWIPE"
    /\ data[1].taps = <<[x |-> 0, y |-> 0], [x |-> 1, y |-> 1]>>
    /\ XLines(GestureEvent(1), device_config)[1].val = "00000000"
    /\ XLines(GestureEvent(1), device_config)[2].val = "00000000"

-----------------------------------------------------------------------------
\* C17 as stated: when the profile lacks a key the encoder requires, the
\* failure is raised when the profile is constructed, before the encoding
\* starts (the converter is never left configured with such a profile, about
\* to execute); no Event, not even the bootstrap, has been built and no
\* gesture has been processed.
C17_RaisedAtConstruction ==
    MissingKeys(device_config) # {} =>
        /\ pc # "configured"
        /\ send_events = <<>>
        /\ event_list = <<>>
        /\ idx = 0

\* C17, amended: set_config stores a profile that lacks a key without
\* complaint; the failure, a KeyError, is raised when the conversion is
\* executed, before any Event (the bootstrap included) is built and before
\* any gesture is processed, and the converter's event list stays as it was.
C17_RaisedInExecute ==
    /\ [](MissingKeys(device_config) # {} =>
            /\ pc \in {"start", "configured", "failed"}
            /\ send_events = <<>>
            /\ event_list = <<>>
            /\ idx = 0)
    /\ [][(pc = "start" /\ MissingKeys(device_config) # {})
            => (pc' = "configured" /\ config' = device_config /\ err' = "none")]_vars
    /\ [][(pc = "configured" /\ MissingKeys(device_config) # {})
            => (pc' = "failed" /\ err' = "KeyError")]_vars

\* execute() failed on a profile without PRESS, after init_input_device had
\* run to its end, with one gesture waiting
C17_Witness ==
    /\ pc = "failed"
    /\ err = "KeyError"
    /\ MissingKeys(config) = {"PRESS"}
    /\ DOMAIN input_dev = {"max_x", "max_y", "display_width", "display_height",
                           "input_device"}
    /\ Len(actions) = 1
    /\ send_events = <<>>

-----------------------------------------------------------------------------
\* what one converter, run alone, makes of the actions from the i-th on, with
\* the frame cursor and the clock it has reached: whether it raises, and the
\* events it appends when it does not
RECURSIVE AloneFrom(_, _, _, _, _, _)
AloneFrom(acts, i, frame, clock, dev, cfg) ==
    IF i > Len(acts) THEN [raises |-> FALSE, events |-> <<>>]
    ELSE IF BodyError(acts[i]) # "none" THEN [raises |-> TRUE, events |-> <<>>]
    ELSE LET delay  == Delay(PausedFrames(acts[i], frame))
             t0     == ClockAfterDelay(clock, delay)
             branch == KindBranch(t0, dev, cfg, acts[i])
             rest   == AloneFrom(acts, i + 1, LastFrame(acts[i]), branch.clock,
                                 dev, cfg)
         IN  IF rest.raises THEN rest
             ELSE [raises |-> FALSE,
                   events |-> <<DelayEvent(delay)>> \o branch.events \o rest.events]

\* whether one converter run alone on the action dicts d raises
AloneRaises(d, cfg) ==
    AloneFrom(ReadActionsFromJson(d), 1, 1, ClockStart, InitInputDevice(cfg), cfg).raises

\* the event list of one converter run alone on the action dicts d
Alone(d, cfg) ==
    LET dev == InitInputDevice(cfg)
    IN  InitialSendEvents(dev, cfg)
            \o AloneFrom(ReadActionsFromJson(d), 1, 1, ClockStart, dev, cfg).events

\* C19: two converters that are given the same profile and whose runs are
\* interleaved in any way each produce the event list and the raw commands
\* they produce when run alone (and fail when they fail alone), and neither
\* changes the profile or the list of gestures it was given.
C19_Reentrant ==
    /\ [](pc \in {"converted", "done"} =>
            (~AloneRaises(data, device_config)
             /\ event_list = Alone(data, device_config)))
    /\ [](pc = "done" =>
            raw_commands = ExtractRawFromEvents(Alone(data, device_config)))
    /\ [](pc = "failed" =>
            (AloneRaises(data, device_config) /\ event_list = <<>>))
    /\ [](other.pc \in {"converted", "done"} =>
            (~AloneRaises(other_data, device_config)
             /\ other.event_list = Alone(other_data, device_config)))
    /\ [](other.pc = "done" =>
            other.raw_commands = ExtractRawFromEvents(Alone(other_data, device_config)))
    /\ [](other.pc = "failed" =>
            (AloneRaises(other_data, device_config) /\ other.event_list = <<>>))
    /\ [](pc # "start" =>
            (actions = ReadActionsFromJson(data) /\ config = device_config))
    /\ [](other.pc # "start" =>
            (other.actions = ReadActionsFromJson(other_data)
             /\ other.config = device_config))
    /\ [][device_config' = device_config /\ data' = data
            /\ other_data' = other_data]_vars

\* the second converter ran from start to end on its own Swipe while the
\* first was between its two Clicks
C19_Witness ==
    /\ pc = "converting"
    /\ idx = 2
    /\ Len(data) = 2
    /\ data[1].act_type = "CLICK"
    /\ data[2].act_type = "CLICK"
    /\ other.pc = "done"
    /\ Len(other_data) = 1
    /\ other_data[1].act_type = "SWIPE"
    /\ Len(other.raw_commands) = 10 + 12

-----------------------------------------------------------------------------
\* the place of a step in the trace, 0 when it has not been taken
Place(step) ==
    IF \E k \in 1..Len(trace) : trace[k] = step
    THEN CHOOSE k \in 1..Len(trace) : trace[k] = step
    ELSE 0

\* step b has been taken only after step a
Precedes(a, b) == Place(b) > 0 => (Place(a) > 0 /\ Place(a) < Place(b))

\* C18: in Phase3V2S.execute the recording is started before the replay of
\* the pushed command file begins, the stop signal is sent only after the
\* replay has completed, and the recording thread is joined only after the
\* stop signal; the raw-command file and the Event list are complete before
\* the replay starts.
C18_RecordAroundReplay ==
    /\ Precedes("record_start", "replay_begin")
    /\ Precedes("replay_end", "kill")
    /\ Precedes("kill", "join")
    /\ pc = "replaying" => record_thread # "none"
    /\ pc = "joined" => record_thread = "finished"
    /\ Place("replay_begin") > 0 =>
         /\ {"send_events.log", "events_4_reran.log"} \subseteq files
         /\ p3_events = event_list
         /\ p3_events = Alone(data, device_config)
         /\ p3_raw_commands = ExtractRawFromEvents(p3_events)

\* the whole of execute has run on one Click
C18_Witness ==
    /\ pc = "pulled"
    /\ Len(data) = 1
    /\ data[1].act_type = "CLICK"
    /\ trace = <<"push", "install", "record_start", "launch", "root", "chmod",
                 "replay_begin", "replay_end", "kill", "join", "pull">>
    /\ record_thread = "finished"

-----------------------------------------------------------------------------
\* the line c has this type, code and value
IsLine(c, type, code, val) == c.type = type /\ c.code = code /\ c.val = val

\* the hex fields of a point with whole coordinates that are not negative
FieldX(pt) == ToHex8((pt.x * (device_config.max_x + 1))
                     \div (pt.den * device_config.width))

FieldY(pt) == ToHex8((pt.y * (device_config.max_y + 1))
                     \div (pt.den * device_config.height))

\* the event e is the Swipe of the action dict d
SwipeInOrder(e, d, cfg) ==
    LET cmds == e.raw_commands
        n    == Len(d.taps)
        w    == WaitPerCommand
        t0   == cmds[1].ts
    IN  /\ Len(cmds) = 3 * n + 3
        /\ IsLine(cmds[1], cfg.EV_ABS, cfg.TRACK_ID, "00000000")
        /\ \A k \in 1..n :
             LET pt == Coords(d.taps[k].x, d.taps[k].y, 1)
                 t  == t0 + w + 2 * (k - 1) * w
             IN  /\ IsLine(cmds[3 * k - 1], cfg.EV_ABS, cfg.X, FieldX(pt))
                 /\ IsLine(cmds[3 * k], cfg.EV_ABS, cfg.Y, FieldY(pt))
                 /\ IsLine(cmds[3 * k + 1], cfg.EV_SYN, cfg.EV_SYN, "00000000")
                 /\ cmds[3 * k - 1].ts = t
                 /\ cmds[3 * k].ts = t
                 /\ cmds[3 * k + 1].ts = t + w
        /\ IsLine(cmds[3 * n + 2], cfg.EV_ABS, cfg.TRACK_ID, "ffffffff")
        /\ IsLine(cmds[3 * n + 3], cfg.EV_SYN, cfg.EV_SYN, "00000000")
        /\ cmds[3 * n + 2].ts = t0 + w + 2 * n * w
        /\ cmds[3 * n + 3].ts = cmds[3 * n + 2].ts

\* C21: the raw commands of a Swipe are one tracking-id start; then, for each
\* tap of the path in the order of the taps, that tap's own scaled x line and
\* y line followed by a sync, the clock advanced by wait_per_command after
\* the pair and again after the sync; then the tracking-id release and a
\* last sync.  The k-th coordinate pair is that of the k-th tap.
C21_SwipeOrder ==
    (pc = "converting" /\ KnownKinds(data)) =>
        \A i \in 1..(idx - 1) :
            data[i].act_type = "SWIPE" =>
                LET e == send_events[2 * i + 1]
                IN  /\ e.label = "SWIPE"
                    /\ SwipeInOrder(e, data[i], config)
                    /\ i = idx - 1 =>
                         curr_time_stamp
                             = e.raw_commands[Len(e.raw_commands)].ts + WaitPerCommand

\* the loop has just encoded a Swipe along three different taps
C21_Witness ==
    /\ pc = "converting"
    /\ idx = 2
    /\ data[1].act_type = "SWIPE"
    /\ data[1].taps = ThreeTaps
    /\ KnownKinds(data)
    /\ Len(send_events[3].raw_commands) = 12
    /\ XLines(send_events[3], config)[1].val # XLines(send_events[3], config)[3].val

-----------------------------------------------------------------------------
\* the event e is the LongClick of the action dict d
LongClickHeld(e, d, cfg) ==
    LET cmds == e.raw_commands
        n    == Len(d.frames)
        pt   == Coords(SumX(d.taps), SumY(d.taps), Len(d.taps))
        s    == LongClickWait
        t0   == cmds[1].ts
        xs   == XLines(e, cfg)
        ys   == YLines(e, cfg)
    IN  /\ 3 * s = 2 * WaitPerCommand
        /\ Len(xs) = n
        /\ Len(ys) = n
        /\ \A k \in 1..n : xs[k].val = FieldX(pt) /\ ys[k].val = FieldY(pt)
        /\ Len(cmds) = 3 * n + 4
        /\ \A k \in 1..n :
             LET t == t0 + WaitPerCommand + 2 * (k - 1) * s
             IN  /\ cmds[3 * k - 1] = xs[k]
                 /\ cmds[3 * k] = ys[k]
                 /\ IsLine(cmds[3 * k + 1], cfg.EV_SYN, cfg.EV_SYN, "00000000")
                 /\ cmds[3 * k - 1].ts = t
                 /\ cmds[3 * k].ts = t
                 /\ cmds[3 * k + 1].ts = t + s
        /\ cmds[3 * n + 2].ts = t0 + WaitPerCommand + 2 * n * s

\* C22: a LongClick emits the same coordinate pair, the scaled centroid
\* computed once, for every frame it spans: all its x lines carry one value
\* and all its y lines one value, however many taps the gesture has; each
\* step of a frame, after the pair and after its sync, advances the clock by
\* two thirds of wait_per_command.
C22_LongClickHold ==
    (pc = "converting" /\ KnownKinds(data)) =>
        \A i \in 1..(idx - 1) :
            data[i].act_type = "LONG_CLICK" =>
                /\ send_events[2 * i + 1].label = "LONG_CLICK"
                /\ LongClickHeld(send_events[2 * i + 1], data[i], config)

\* the loop has just encoded a LongClick of three taps over four frames
C22_Witness ==
    /\ pc = "converting"
    /\ idx = 2
    /\ data[1].act_type = "LONG_CLICK"
    /\ data[1].taps = ThreeTaps
    /\ data[1].frames = <<3, 4, 5, 6>>
    /\ Len(XLines(send_events[3], config)) = 4

-----------------------------------------------------------------------------
\* the events built so far in the run, or kept from it
EventsSoFar == IF pc = "converting" THEN send_events ELSE event_list

\* the lines of e have the types, codes and values of a Click's lines, both
\* coordinate values being val, and are stamped from t0 in steps of w per
\* group
ClickShaped(e, cfg, val, t0, w) ==
    LET cmds  == e.raw_commands
        kinds == ClickLineKinds(cfg)
    IN  /\ Len(cmds) = Len(kinds)
        /\ \A k \in 1..Len(kinds) :
             /\ cmds[k].dev = cfg.device
             /\ cmds[k].type = kinds[k][1]
             /\ cmds[k].code = kinds[k][2]
             /\ cmds[k].val = IF Len(kinds[k]) = 3 THEN kinds[k][3] ELSE val
             /\ cmds[k].ts = t0 + ClickLineGroups[k] * w

\* C23: the bootstrap event has the line structure of a Click event (the same
\* sequence of tracking, key, coordinate, touch-major, pressure, sync and
\* release lines); it differs in that its timestamps start at 0 and step by
\* 0.001 per group and that both coordinate lines carry ffffffff, for every
\* profile; it is built without reading any gesture.
C23_BootstrapIsClickShaped ==
    EventsSoFar # <<>> =>
        LET boot == EventsSoFar[1]
        IN  /\ 1000 * FakeTapWait = TicksPerSecond
            /\ boot.label = "CLICK"
            /\ ClickShaped(boot, device_config, "ffffffff", 0, FakeTapWait)
            /\ boot = AddFakeTap(InitInputDevice(device_config), device_config)
            /\ \A i \in 1..Len(data) :
                 (2 * i + 1 <= Len(EventsSoFar) /\ data[i].act_type = "CLICK") =>
                    LET e == EventsSoFar[2 * i + 1]
                    IN  \A k \in 1..Len(e.raw_commands) :
                           /\ Len(e.raw_commands) = Len(boot.raw_commands)
                           /\ e.raw_commands[k].type = boot.raw_commands[k].type
                           /\ e.raw_commands[k].code = boot.raw_commands[k].code
                           /\ k \notin {4, 5} =>
                                e.raw_commands[k].val = boot.raw_commands[k].val

\* the bootstrap stands alone, before the first gesture (a Click on the
\* coarse panel) is read
C23_Witness ==
    /\ pc = "converting"
    /\ idx = 1
    /\ Len(send_events) = 1
    /\ device_config = CoarseProfile
    /\ data[1].act_type = "CLICK"
    /\ send_events[1].raw_commands[4].val = "ffffffff"

-----------------------------------------------------------------------------
\* the events that carry lines: the bootstrap and the gesture events
WithLines(events) == SelectSeq(events, LAMBDA e : e.label # "DELAY")

FirstTs(e) == e.raw_commands[1].ts

FinalTs(e) == e.raw_commands[Len(e.raw_commands)].ts

\* C24: the clock starts at 1.0 after the bootstrap event and never goes
\* back: the first line of the first gesture is stamped 1.0 plus that
\* gesture's delay, every timestamp of the bootstrap is strictly below 1.0,
\* and the first line of every gesture event is stamped strictly later than
\* the last line of the event before it.
C24_ClockFromOne ==
    EventsSoFar # <<>> =>
        LET evs == WithLines(EventsSoFar)
        IN  /\ \A k \in 1..Len(evs[1].raw_commands) :
                 evs[1].raw_commands[k].ts < TicksPerSecond
            /\ (Len(evs) >= 2 /\ data[1].act_type \in ActTypeNames) =>
                 FirstTs(evs[2])
                     = TicksPerSecond + Delay(PyMax(0, data[1].frames[1] - 1))
            /\ \A j \in 2..Len(evs) :
                 /\ FirstTs(evs[j]) > FinalTs(evs[j - 1])
                 /\ FirstTs(evs[j]) >= TicksPerSecond
            /\ pc = "converting" =>
                 /\ curr_time_stamp >= TicksPerSecond
                 /\ curr_time_stamp > FinalTs(evs[Len(evs)])

\* two gestures were converted, the second starting at a frame before the
\* one the first ended at
C24_Witness ==
    /\ pc = "converted"
    /\ Len(data) = 2
    /\ KnownKinds(data)
    /\ data[1].frames = <<10, 11, 12>>
    /\ data[2].frames = <<5>>
    /\ Len(WithLines(event_list)) = 3

-----------------------------------------------------------------------------
\* the point p is the pixel (x, y), as given
IsPixel(p, x, y) == p.x = x * p.den /\ p.y = y * p.den

\* the point p is the centroid of the taps
IsCentroidOf(p, taps) ==
    /\ p.x * Len(taps) = SumX(taps) * p.den
    /\ p.y * Len(taps) = SumY(taps) * p.den

\* C25: the geometry of a gesture's Event is in the original pixel
\* coordinates, not scaled: a Swipe starts at the first tap of its path and
\* ends at the last; a Click and a LongClick start and end at the centroid of
\* the taps; the label is the kind of the gesture (CLICK, LONG_CLICK, SWIPE).
C25_EventGeometry ==
    (pc = "converting" /\ KnownKinds(data)) =>
        \A i \in 1..(idx - 1) :
            LET e    == send_events[2 * i + 1]
                taps == data[i].taps
            IN  /\ e.label = data[i].act_type
                /\ e.label \in ActTypeNames
                /\ data[i].act_type = "SWIPE" =>
                     /\ IsPixel(e.start, taps[1].x, taps[1].y)
                     /\ IsPixel(e.end, taps[Len(taps)].x, taps[Len(taps)].y)
                /\ data[i].act_type \in {"CLICK", "LONG_CLICK"} =>
                     /\ IsCentroidOf(e.start, taps)
                     /\ e.end = e.start

\* a Swipe from (100, 200) to (1079, 1919) has been encoded: its event starts
\* at pixel 100 while its first x line carries the scaled 0000017b
C25_Witness ==
    /\ pc = "converting"
    /\ idx = 2
    /\ data[1].act_type = "SWIPE"
    /\ data[1].taps = ThreeTaps
    /\ send_events[3].start.x = 100
    /\ send_events[3].end.x = 1079
    /\ XLines(send_events[3], config)[1].val = "0000017b"

-----------------------------------------------------------------------------
\* three times the advance of the clock the claim gives for a gesture, apart
\* from its delay: 5w for a Click, (2 + 2n)w for a Swipe of n taps,
\* 3w + n(4/3)w for a LongClick over n frames
ThriceAdvance(d) ==
    LET w == WaitPerCommand
    IN  CASE d.act_type = "CLICK"      -> 3 * 5 * w
          [] d.act_type = "SWIPE"      -> 3 * (2 + 2 * Len(d.taps)) * w
          [] d.act_type = "LONG_CLICK" -> 3 * 3 * w + Len(d.frames) * 4 * w

\* the delay of the i-th gesture: the frames between the end of the gesture
\* before it (frame 1 for the first) and its first frame, none if negative
DelayOf(d, i) ==
    LET before == IF i = 1 THEN 1 ELSE d[i - 1].frames[Len(d[i - 1].frames)]
        paused == IF d[i].frames[1] > before THEN d[i].frames[1] - before ELSE 0
    IN  (paused * TicksPerSecond) \div DELAY_OFFSET

RECURSIVE ThriceClockAfter(_, _)
ThriceClockAfter(d, n) ==
    IF n = 0 THEN 3 * TicksPerSecond
    ELSE ThriceClockAfter(d, n - 1) + 3 * DelayOf(d, n) + ThriceAdvance(d[n])

\* C26: the advance of the clock over one gesture is a fixed function of its
\* kind and size: its delay plus 5w for a Click, (2 + 2n)w for a Swipe of n
\* taps, 3w + n(4/3)w for a LongClick over n frames, w = wait_per_command;
\* the last advance, after the gesture's last line, is applied although no
\* line is stamped with it.
C26_ClockAdvance ==
    (pc = "converting" /\ KnownKinds(data)) =>
        /\ 3 * curr_time_stamp = ThriceClockAfter(data, idx - 1)
        /\ idx > 1 =>
             /\ curr_time_stamp = FinalTs(send_events[Len(send_events)]) + WaitPerCommand
             /\ \A k \in 1..Len(send_events) :
                  \A c \in 1..Len(send_events[k].raw_commands) :
                      send_events[k].raw_commands[c].ts < curr_time_stamp

\* a LongClick over four frames, then a Swipe of three taps, both encoded
C26_Witness ==
    /\ pc = "converting"
    /\ idx = 3
    /\ data[1].act_type = "LONG_CLICK"
    /\ data[1].frames = <<3, 4, 5, 6>>
    /\ data[2].act_type = "SWIPE"
    /\ data[2].taps = ThreeTaps
    /\ data[2].frames = <<10, 11, 12>>
    /\ 3 * curr_time_stamp = ThriceClockAfter(data, 2)

-----------------------------------------------------------------------------
IsTrack(c, cfg) == c.type = cfg.EV_ABS /\ c.code = cfg.TRACK_ID

IsCoordinate(c, cfg) == c.type = cfg.EV_ABS /\ c.code \in {cfg.X, cfg.Y}

IsSync(c, cfg) == IsLine(c, cfg.EV_SYN, cfg.EV_SYN, "00000000")

\* the number of tracking-id lines before the i-th line
TracksBefore(cmds, i, cfg) ==
    Cardinality({j \in 1..(i - 1) : IsTrack(cmds[j], cfg)})

\* tracking-id lines alternate start, release, start, ..., release; every
\* coordinate line has a start before it that is not released yet; a sync
\* marker follows every release at once
WellBracketed(cmds, cfg) ==
    /\ \A i \in 1..Len(cmds) :
         /\ IsTrack(cmds[i], cfg) =>
              /\ cmds[i].val \in {"00000000", "ffffffff"}
              /\ (cmds[i].val = "00000000") <=> (TracksBefore(cmds, i, cfg) % 2 = 0)
         /\ IsCoordinate(cmds[i], cfg) => TracksBefore(cmds, i, cfg) % 2 = 1
         /\ (IsTrack(cmds[i], cfg) /\ cmds[i].val = "ffffffff") =>
              /\ i < Len(cmds)
              /\ IsSync(cmds[i + 1], cfg)
    /\ TracksBefore(cmds, Len(cmds) + 1, cfg) % 2 = 0
    /\ \E i \in 1..Len(cmds) : IsTrack(cmds[i], cfg)

\* the release of an event is its last line but one, the sync its last
ReleaseEndsEvent(e, cfg) ==
    LET cmds == e.raw_commands
    IN  \A c \in 1..Len(cmds) :
            (IsTrack(cmds[c], cfg) /\ cmds[c].val = "ffffffff") =>
                /\ c + 1 = Len(cmds)
                /\ IsSync(cmds[c + 1], cfg)

\* C27: in the raw commands of a conversion that succeeded, tracking-id
\* start (00000000) and release (ffffffff) lines alternate strictly, from a
\* start to a release; every coordinate line lies between a start and its
\* release; every release is followed at once by a sync marker, the last
\* line of its event.
C27_WellBracketed ==
    pc = "done" =>
        /\ raw_commands = ExtractRawFromEvents(event_list)
        /\ WellBracketed(raw_commands, config)
        /\ \A k \in 1..Len(event_list) : ReleaseEndsEvent(event_list[k], config)

\* a Swipe of three taps and a LongClick over three frames were converted:
\* three contacts with the bootstrap tap, fourteen coordinate lines
C27_Witness ==
    /\ pc = "done"
    /\ Len(data) = 2
    /\ data[1].act_type = "SWIPE"
    /\ data[1].taps = ThreeTaps
    /\ data[2].act_type = "LONG_CLICK"
    /\ data[2].frames = <<10, 11, 12>>
    /\ TracksBefore(raw_commands, Len(raw_commands) + 1, config) = 6
    /\ Cardinality({i \in 1..Len(raw_commands) : IsCoordinate(raw_commands[i], config)}) = 14

-----------------------------------------------------------------------------
\* the serials of the connected devices of the class the configuration asks
\* for: emulators when emulator is "True", physical devices otherwise
RequestedClass ==
    LET lines == Tail(adb_devices)
        want == p3_config.emulator = "True"
    IN  SelectSeq([i \in 1..Len(lines) |-> lines[i].serial],
                  LAMBDA n : (n \in {"emulator-5554", "emulator-5556"}) = want)

\* execute has chosen its device or has exited
DeviceDecided == device_name # None \/ pc = "exited"

\* C28: the device of the replay follows the emulator flag of the
\* configuration: execute selects the first listed emulator when emulator is
\* "True" and the first listed physical device otherwise, and exits with an
\* error when no device of the requested class is connected.
C28_SelectionFollowsFlag ==
    DeviceDecided =>
        IF RequestedClass = <<>>
        THEN pc = "exited" /\ device_name = None
        ELSE pc # "exited" /\ device_name = RequestedClass[1]
====
